---- MODULE Spec2Model ----
(***************************************************************************)
(* A model of managed_json: a JSON document whose mutations are captured   *)
(* by a Proxy handler into a redo log kept inside the document itself      *)
(* (root.__versioning__.log), with change events and read-only replicas.   *)
(*                                                                         *)
(* JavaScript objects live in a heap (a sequence of objects addressed by   *)
(* their index), because the program depends on object identity: a view    *)
(* (Proxy) keeps a reference to its target object even after the target    *)
(* was unlinked from the document, and Reflect.set stores the caller's     *)
(* object itself while the log stores a deep copy.                         *)
(***************************************************************************)
EXTENDS Integers, Sequences, FiniteSets, TLC

VERSIONING_DATA_PROP == "__versioning__"
LOG_PROP == "log"
LSN_PROP == "lsn"

(***************************************************************************)
(* JavaScript values.  t is the value's typeof (with "null" set apart);    *)
(* a value of type "object" is a reference n into the heap.                *)
(***************************************************************************)
Undefined == [t |-> "undefined", s |-> "", n |-> 0]
Null == [t |-> "null", s |-> "", n |-> 0]
Num(k) == [t |-> "number", s |-> "", n |-> k]
NaN == [t |-> "number", s |-> "NaN", n |-> 0]
Str(x) == [t |-> "string", s |-> x, n |-> 0]
Bool(b) == [t |-> "boolean", s |-> "", n |-> IF b THEN 1 ELSE 0]
Fn == [t |-> "function", s |-> "", n |-> 0]
Sym == [t |-> "symbol", s |-> "", n |-> 0]
Ref(i) == [t |-> "object", s |-> "", n |-> i]
IsRef(v) == v.t = "object"

\* Truthiness, for `if (n)` and `!!x`.
Truthy(v) ==
  CASE v.t = "undefined" -> FALSE
    [] v.t = "null" -> FALSE
    [] v.t = "number" -> v.n # 0 /\ v.s = ""
    [] v.t = "string" -> v.s # ""
    [] v.t = "boolean" -> v.n # 0
    [] OTHER -> TRUE

\* _.isNil
IsNil(v) == v.t \in {"undefined", "null"}

(***************************************************************************)
(* Heap objects: a plain object or an array.  f maps the own property      *)
(* names to values; an array also has its length.                          *)
(***************************************************************************)
EmptyF == [k \in {} |-> Undefined]
MkObj(f) == [kind |-> "obj", f |-> f, len |-> 0]
MkArr(f, len) == [kind |-> "arr", f |-> f, len |-> len]

\* An instance of a class: an object whose constructor is not Object.
MkInst(f) == [kind |-> "inst", f |-> f, len |-> 0]

\* The name under which f holds a property whose key is a symbol.
SymbolKey == "Symbol()"

\* Array indices in their decimal string form (property keys are strings).
IdxStr == <<"0", "1", "2", "3", "4", "5", "6", "7", "8", "9",
           "10", "11", "12", "13", "14", "15", "16", "17", "18", "19",
           "20", "21", "22", "23", "24", "25", "26", "27", "28", "29",
           "30", "31", "32", "33", "34", "35", "36", "37", "38", "39">>
ToStr(i) == IdxStr[i + 1]
IsIndex(k) == \E i \in 1..Len(IdxStr) : IdxStr[i] = k
ToIdx(k) == (CHOOSE i \in 1..Len(IdxStr) : IdxStr[i] = k) - 1

Put(f, k, v) == [x \in (DOMAIN f) \cup {k} |-> IF x = k THEN v ELSE f[x]]

\* o[k] on a heap object (own properties and an array's length only).
GetProp(h, id, k) ==
  IF k \in DOMAIN h[id].f THEN h[id].f[k]
  ELSE IF h[id].kind = "arr" /\ k = "length" THEN Num(h[id].len)
  ELSE Undefined

\* v[k] on any value: "throw" on undefined/null, undefined on a primitive.
Prop(h, v, k) ==
  IF IsNil(v) THEN [err |-> "TypeError", v |-> Undefined]
  ELSE IF IsRef(v) THEN [err |-> "", v |-> GetProp(h, v.n, k)]
  ELSE [err |-> "", v |-> Undefined]

\* k in o
HasProp(h, id, k) == k \in DOMAIN h[id].f \/ (h[id].kind = "arr" /\ k = "length")

(***************************************************************************)
(* Reflect.set / Reflect.deleteProperty on an ordinary object or array.    *)
(* Result: the new heap, success (the Reflect call's return value) and     *)
(* err, the exception thrown, if any.                                      *)
(***************************************************************************)
\* The array o with v stored at index i.
Stored(o, i, v) == MkArr(Put(o.f, ToStr(i), v), IF i + 1 > o.len THEN i + 1 ELSE o.len)

ReflectSet(h, id, k, v) ==
  IF h[id].kind = "arr" /\ k = "length" THEN
    IF v.t = "number" /\ v.s = "" /\ v.n >= 0
    THEN [h |-> [h EXCEPT ![id] =
                   MkArr([x \in {y \in DOMAIN @.f : ~(IsIndex(y) /\ ToIdx(y) >= v.n)} |-> @.f[x]],
                         v.n)],
          success |-> TRUE, err |-> ""]
    ELSE [h |-> h, success |-> FALSE, err |-> "RangeError"]
  ELSE IF h[id].kind = "arr" /\ IsIndex(k) THEN
    [h |-> [h EXCEPT ![id] = Stored(@, ToIdx(k), v)], success |-> TRUE, err |-> ""]
  ELSE
    [h |-> [h EXCEPT ![id].f = Put(@, k, v)], success |-> TRUE, err |-> ""]

ReflectDelete(h, id, k) ==
  IF h[id].kind = "arr" /\ k = "length" THEN
    \* length is not configurable: the delete is refused.
    [h |-> h, success |-> FALSE, err |-> ""]
  ELSE
    [h |-> [h EXCEPT ![id].f = [x \in (DOMAIN @) \ {k} |-> @[x]]], success |-> TRUE, err |-> ""]

\* Array.prototype.push on a raw array.
RawPush(h, id, v) == [h EXCEPT ![id] = Stored(@, @.len, v)]


(***************************************************************************)
(* _.cloneDeep(v), reading v in heap src and building the copy at the end  *)
(* of heap dst.  The objects reachable from v are copied in the order of   *)
(* their addresses.  lodash copies an array index by index, so a hole      *)
(* becomes an explicit undefined and extra (non-index) properties of an    *)
(* array are not copied.                                                   *)
(***************************************************************************)
ClonedKeys(o) ==
  IF o.kind = "arr" THEN {ToStr(i) : i \in 0..(o.len - 1)} ELSE DOMAIN o.f

ClonedVal(o, k) == IF k \in DOMAIN o.f THEN o.f[k] ELSE Undefined

\* The addresses of the objects that object i refers to.
Kids(h, i) ==
  {ClonedVal(h[i], k).n : k \in {x \in ClonedKeys(h[i]) : IsRef(ClonedVal(h[i], x))}}

\* The addresses reachable from the addresses `frontier`.
RECURSIVE ReachFrom(_, _, _)
ReachFrom(h, frontier, done) ==
  IF frontier = {} THEN done
  ELSE ReachFrom(h, (UNION {Kids(h, i) : i \in frontier}) \ (done \cup frontier),
                 done \cup frontier)

\* The position of address id among the addresses R, and its inverse.
Rank(R, id) == Cardinality({j \in R : j <= id})
IdAt(R, i) == CHOOSE j \in R : Rank(R, j) = i

\* A value of the original as a value of the copy built after address base.
Remap(R, base, x) == IF IsRef(x) THEN Ref(base + Rank(R, x.n)) ELSE x

CopyObj(R, base, o) ==
  IF o.kind = "arr"
  THEN MkArr([k \in ClonedKeys(o) |-> Remap(R, base, ClonedVal(o, k))], o.len)
  ELSE [kind |-> o.kind, f |-> [k \in DOMAIN o.f |-> Remap(R, base, o.f[k])], len |-> 0]

CloneReach(src, v, dst, R) ==
  [h |-> dst \o [i \in 1..Cardinality(R) |-> CopyObj(R, Len(dst), src[IdAt(R, i)])],
   v |-> Remap(R, Len(dst), v)]

CloneDeep(src, v, dst) ==
  CloneReach(src, v, dst, IF IsRef(v) THEN ReachFrom(src, {v.n}, {}) ELSE {})

(***************************************************************************)
(* The structure of a value: the set of <<path, node>> pairs of its tree.  *)
(* Two values are structurally equal (_.isEqual) iff these sets are equal: *)
(* arrays are compared by length and index (a hole equals undefined),      *)
(* objects by their own keys.                                              *)
(***************************************************************************)
RECURSIVE Flat(_, _)
Flat(h, v) ==
  IF ~IsRef(v) THEN {<<<< >>, v>>}
  ELSE {<<<< >>, [t |-> "object", s |-> h[v.n].kind, n |-> h[v.n].len]>>} \cup
       UNION {{<<<<k>> \o e[1], e[2]>> : e \in Flat(h, ClonedVal(h[v.n], k))} :
              k \in ClonedKeys(h[v.n])}

\* A plain value outside the program's heap: a heap of its own and a value.
Plain(h, v) == CloneDeep(h, v, << >>)
FlatP(p) == Flat(p.h, p.v)
\* _.isEqual(v, p) for a value v of heap h and a plain value p.
IsEqual(h, v, p) == Flat(h, v) = FlatP(p)
\* The plain value without one root key (`delete clone[key]`).
WithoutKey(p, k) ==
  IF IsRef(p.v) THEN [h |-> ReflectDelete(p.h, p.v.n, k).h, v |-> p.v] ELSE p

(***************************************************************************)
(* isValidProperty, isAssignable, isManageable                             *)
(***************************************************************************)
isValidProperty(prop) == prop.t = "string"

IsArray(h, v) == IsRef(v) /\ h[v.n].kind = "arr"

\* A faulty variant of isAssignable: a container is not looked into.
isAssignableShallow(h, value) ==
  IF value.t = "function" THEN FALSE
  ELSE IF value.t = "symbol" THEN FALSE
  ELSE TRUE

\* isAssignable(value): the elements of an array; for another object its
\* constructor, its symbol keys and its properties.
RECURSIVE isAssignable(_, _)
isAssignable(h, value) ==
  IF value.t = "function" THEN FALSE
  ELSE IF value.t = "symbol" THEN FALSE
  ELSE IF value.t = "null" THEN TRUE
  ELSE IF IsArray(h, value) THEN
    \A k \in ClonedKeys(h[value.n]) : isAssignable(h, ClonedVal(h[value.n], k))
  ELSE IF IsRef(value) THEN
    /\ h[value.n].kind # "inst"
    /\ SymbolKey \notin DOMAIN h[value.n].f
    /\ \A k \in DOMAIN h[value.n].f : isAssignable(h, h[value.n].f[k])
  ELSE TRUE

isManageable(h, object) == ~IsNil(object) /\ ~IsArray(h, object) /\ isAssignable(h, object)

(***************************************************************************)
(* LogEntry                                                                *)
(***************************************************************************)
SET == Str("set")
DELETE == Str("delete")

OperationType_isValid(opName) == opName = SET \/ opName = DELETE

\* A property key as the string JavaScript uses for it.
KeyOf(v) ==
  CASE v.t = "string" -> v.s
    [] v.t = "number" -> ToStr(v.n)
    [] OTHER -> v.t

\* An array literal holding the elements of the sequence p.
ArrayOf(p) == MkArr([k \in {ToStr(i - 1) : i \in 1..Len(p)} |-> p[ToIdx(k) + 1]], Len(p))

\* The object literal {op, path, value}.
EntryOf(op, path, value) ==
  MkObj([k \in {"op", "path", "value"} |->
           CASE k = "op" -> op [] k = "path" -> path [] OTHER -> value])

\* LogEntry.create(op, path, value), path being a new array with the
\* elements of the sequence p, and value the value c.v of heap c.h: two
\* objects are added to the heap.
LogEntry_create(c, op, p) ==
  [h |-> c.h \o <<ArrayOf(p), EntryOf(op, Ref(Len(c.h) + 1), c.v)>>,
   v |-> Ref(Len(c.h) + 2)]

LogEntry_isValid(h, l) ==
  /\ IsRef(l)
  /\ "op" \in DOMAIN h[l.n].f /\ OperationType_isValid(h[l.n].f["op"])
  /\ "path" \in DOMAIN h[l.n].f /\ IsArray(h, h[l.n].f["path"])
  /\ "value" \in DOMAIN h[l.n].f

\* p[i] of the path array at address p, as a property key.
PathKey(h, p, i) == KeyOf(GetProp(h, p, ToStr(i)))

\* `o[p[i]] = _.cloneDeep(logEntry.value)`, c being the copy.  The module is
\* in strict mode: assigning to a property of undefined, of null or of a
\* primitive throws a TypeError.
AssignClone(h, o, key, c) ==
  IF ~IsRef(o) THEN [h |-> h, err |-> "TypeError"] ELSE ReflectSet(c.h, o.n, key, c.v)

\* setPathRec(o, p, i): o is a value, p the address of the path array.
RECURSIVE setPathRec(_, _, _, _, _)
setPathRec(h, o, p, i, value) ==
  IF h[p].len = i + 1 THEN AssignClone(h, o, PathKey(h, p, i), CloneDeep(h, value, h))
  ELSE IF IsNil(o) THEN [h |-> h, err |-> "TypeError"]
  ELSE setPathRec(h, Prop(h, o, PathKey(h, p, i)).v, p, i + 1, value)

\* `delete o[p[i]]`: a TypeError on undefined or null and when the property
\* cannot be deleted, nothing on another primitive.
DeleteResult(h, rd) ==
  IF rd.success THEN [h |-> rd.h, err |-> ""] ELSE [h |-> h, err |-> "TypeError"]

DeleteKey(h, o, key) ==
  IF IsNil(o) THEN [h |-> h, err |-> "TypeError"]
  ELSE IF ~IsRef(o) THEN [h |-> h, err |-> ""]
  ELSE DeleteResult(h, ReflectDelete(h, o.n, key))

RECURSIVE deletePathRec(_, _, _, _)
deletePathRec(h, o, p, i) ==
  IF h[p].len = i + 1 THEN DeleteKey(h, o, PathKey(h, p, i))
  ELSE IF IsNil(o) THEN [h |-> h, err |-> "TypeError"]
  ELSE deletePathRec(h, Prop(h, o, PathKey(h, p, i)).v, p, i + 1)

\* LogEntry.apply(object, logEntry): the new heap, or the error thrown (the
\* object is then unchanged: both walks throw before they write).
LogEntry_apply(h, object, logEntry) ==
  IF ~LogEntry_isValid(h, logEntry) THEN [h |-> h, err |-> "MalformedEntry"]
  ELSE IF h[logEntry.n].f["op"] = SET
    THEN setPathRec(h, object, h[logEntry.n].f["path"].n, 0, h[logEntry.n].f["value"])
    ELSE deletePathRec(h, object, h[logEntry.n].f["path"].n, 0)

\* Apply the entries log[from..to] (addresses in the array logId) in order:
\* the loops of create and restoreVersion.
RECURSIVE ApplyAll(_, _, _, _, _)
ApplyRest(r, object, logId, from, to) ==
  IF r.err # "" THEN r ELSE ApplyAll(r.h, object, logId, from, to)

ApplyAll(h, object, logId, from, to) ==
  IF from > to THEN [h |-> h, err |-> ""]
  ELSE ApplyRest(LogEntry_apply(h, object, GetProp(h, logId, ToStr(from))),
                 object, logId, from + 1, to)

(***************************************************************************)
(* Views.  A view is a Proxy with the handler createProxyHandler makes:    *)
(* root is rootObject_, tgt the Proxy's target, path is path_, em is       *)
(* eventEmitter_ (0 when it is undefined) and ro is readOnly_.             *)
(*                                                                         *)
(* A call runs in a world w: the heap, what the observers have received,   *)
(* and err, the exception the call threw ("" when it returned).            *)
(***************************************************************************)
createProxyHandler(rootObject, path, eventEmitter, readOnly) ==
  [root |-> rootObject, path |-> path, em |-> eventEmitter, ro |-> readOnly]

\* new Proxy(target, handler)
NewProxy(target, handler) ==
  [root |-> handler.root, tgt |-> target, path |-> handler.path, em |-> handler.em,
   ro |-> handler.ro]

Throw(w, e) == [w EXCEPT !.err = e]

\* A faulty variant of NestedReadOnly: the flag of the parent view is not
\* passed on to the nested view.
NestedReadOnlyNotInherited(view, path) ==
  Len(path) = 1 /\ path[1] = Str(VERSIONING_DATA_PROP)

\* The read-only flag of the view the get trap makes for the path `path`.
NestedReadOnly(view, path) ==
  IF Len(path) = 1 /\ path[1] = Str(VERSIONING_DATA_PROP) THEN TRUE ELSE view.ro

\* A faulty variant of ProxyOrValue: the nested view's path does not start
\* with the path of the view it was read from.
ProxyOrValueRelative(view, property, value) ==
  IF ~IsNil(value) /\ IsRef(value)
  THEN [isView |-> TRUE, v |-> value,
        view |-> NewProxy(value.n,
                   createProxyHandler(view.root, <<property>>, view.em,
                                      NestedReadOnly(view, Append(view.path, property))))]
  ELSE [isView |-> FALSE, v |-> value, view |-> view]

\* What the get trap returns for the value it read: a nested view for an
\* object or an array, the value itself otherwise.
ProxyOrValue(view, property, value) ==
  IF ~IsNil(value) /\ IsRef(value)
  THEN [isView |-> TRUE, v |-> value,
        view |-> NewProxy(value.n,
                   createProxyHandler(view.root, Append(view.path, property), view.em,
                                      NestedReadOnly(view, Append(view.path, property))))]
  ELSE [isView |-> FALSE, v |-> value, view |-> view]

\* The get trap for a string property.
Proxy_get(h, view, property) ==
  ProxyOrValue(view, property, GetProp(h, view.tgt, KeyOf(property)))

\* ManagedJson._getLog(object) = object[VERSIONING_DATA_PROP][LOG_PROP]
ManagedJson__getLog(h, object) ==
  Prop(h, Prop(h, object, VERSIONING_DATA_PROP).v, LOG_PROP)

\* x + 1 for the value x of an lsn field (NaN when x is no number).
PlusOne(x) ==
  CASE x.t = "number" /\ x.s = "" -> Num(x.n + 1)
    [] x.t = "null" -> Num(1)
    [] OTHER -> NaN

\* Replica.isReplica(object), read through the view.
Replica_isReplica(h, object) ==
  /\ HasProp(h, object.tgt, VERSIONING_DATA_PROP)
  /\ IsRef(GetProp(h, object.tgt, VERSIONING_DATA_PROP))
  /\ HasProp(h, GetProp(h, object.tgt, VERSIONING_DATA_PROP).n, LSN_PROP)

RECURSIVE Emit(_, _, _, _)

\* Replica.eventEmitter(object).emit('change', changeEvent)
Replica_reemit(w, subs, object, changeEvent) ==
  IF ~Replica_isReplica(w.h, object) THEN Throw(w, "TypeError")
  ELSE Emit(w, subs, object.em, changeEvent)

\* root[VERSIONING_DATA_PROP][LSN_PROP]++, vb being root[VERSIONING_DATA_PROP]
Replica_increment(w, subs, object, changeEvent, h, vb) ==
  IF ~IsRef(vb) THEN Throw([w EXCEPT !.h = h], "TypeError")
  ELSE Replica_reemit(
         [w EXCEPT !.h = ReflectSet(h, vb.n, LSN_PROP, PlusOne(GetProp(h, vb.n, LSN_PROP))).h],
         subs, object, changeEvent)

\* After LogEntry.apply(root, changeEvent.logEntry) gave a.
Replica_applied(w, subs, object, changeEvent, a) ==
  IF a.err # "" THEN Throw(w, a.err)
  ELSE Replica_increment(w, subs, object, changeEvent, a.h,
                         Prop(a.h, Ref(object.root), VERSIONING_DATA_PROP).v)

\* A faulty variant of Replica_checkLsn: an event older than the replica
\* expects is applied again instead of being refused.
Replica_checkLsnNoOlder(w, subs, object, changeEvent, lsn) ==
  IF lsn.err # "" THEN Throw(w, "TypeError")
  ELSE IF lsn.v.t = "number" /\ lsn.v.n + 1 < changeEvent.lsn THEN Throw(w, "OutOfSync")
  ELSE Replica_applied(w, subs, object, changeEvent,
                       LogEntry_apply(w.h, Ref(object.root), changeEvent.logEntry))

\* A faulty variant of Replica_checkLsn: an event newer than the replica
\* expects is applied, the replica skipping the events between.
Replica_checkLsnSkipping(w, subs, object, changeEvent, lsn) ==
  IF lsn.err # "" THEN Throw(w, "TypeError")
  ELSE IF lsn.v.t = "number" /\ lsn.v.n + 1 > changeEvent.lsn THEN Throw(w, "OutOfSync")
  ELSE Replica_applied(w, subs, object, changeEvent,
                       LogEntry_apply(w.h, Ref(object.root), changeEvent.logEntry))

\* The check of the event's lsn against lsn = root.__versioning__.lsn.
Replica_checkLsn(w, subs, object, changeEvent, lsn) ==
  IF lsn.err # "" THEN Throw(w, "TypeError")
  ELSE IF PlusOne(lsn.v) # Num(changeEvent.lsn) THEN Throw(w, "OutOfSync")
  ELSE Replica_applied(w, subs, object, changeEvent,
                       LogEntry_apply(w.h, Ref(object.root), changeEvent.logEntry))

\* Replica.apply(object, changeEvent)
Replica_apply(w, subs, object, changeEvent) ==
  Replica_checkLsn(w, subs, object, changeEvent,
    Prop(w.h, Prop(w.h, Ref(object.root), VERSIONING_DATA_PROP).v, LSN_PROP))

\* A handler's attempt to write one property of a part of the event it
\* received: of the event itself, of its logEntry, of logEntry.path or of
\* logEntry.value.  The write fails on a frozen object (the handler goes on).
MutateObject(w, event, id, k, v) ==
  IF id \in event.frozen THEN w ELSE [w EXCEPT !.h = ReflectSet(@, id, k, v).h]

Mutate(w, event, what) ==
  IF what = "event" THEN MutateObject(w, event, 0, "lsn", Num(0))
  ELSE IF what = "logEntry" THEN MutateObject(w, event, event.logEntry.n, "op", Str(DELETE))
  ELSE IF what = "path"
    THEN MutateObject(w, event, w.h[event.logEntry.n].f["path"].n, "0", Str("z"))
  ELSE IF IsRef(w.h[event.logEntry.n].f["value"])
    THEN MutateObject(w, event, w.h[event.logEntry.n].f["value"].n, "z", Num(9))
  ELSE w

\* A handler records the event it received, passes it to Replica.apply for
\* the replica it was registered for, throws, or tries to change the event;
\* a handler that observes records the event together with the heap as it
\* is when the handler is called (at); a handler that writes sets the key
\* `what` of the view r it holds, unless the event is that of its own write:
\* the set trap runs on the handler's stack.
RECURSIVE Proxy_set(_, _, _, _, _)
Handle(w, subs, handler, event) ==
  IF handler.kind = "apply" THEN Replica_apply(w, subs, handler.r, event)
  ELSE IF handler.kind = "throw" THEN Throw(w, "HandlerError")
  ELSE IF handler.kind = "mutate" THEN Mutate(w, event, handler.what)
  ELSE IF handler.kind = "write"
    THEN IF GetProp(w.h, w.h[event.logEntry.n].f["path"].n, "0") = Str(handler.what) THEN w
         ELSE Proxy_set(w, subs, handler.r, Str(handler.what), Num(7))
  ELSE IF handler.kind = "observe"
    THEN [w EXCEPT !.seen[handler.obs] =
            Append(@, [x \in DOMAIN event \cup {"at"} |-> IF x = "at" THEN w.h ELSE event[x]])]
  ELSE [w EXCEPT !.seen[handler.obs] = Append(@, event)]

\* eventEmitter.emit('change', event): the handlers run in registration
\* order on the caller's stack; what a handler throws reaches the caller
\* and the handlers after it are not run.
RECURSIVE RunHandlers(_, _, _, _, _)
RunRest(w, subs, hs, i, event) ==
  IF w.err # "" THEN w ELSE RunHandlers(w, subs, hs, i, event)

\* A faulty variant of RunHandlers: the handlers run in reverse order.
RunHandlersReversed(w, subs, hs, i, event) ==
  IF i > Len(hs) THEN w
  ELSE RunRest(Handle(w, subs, hs[Len(hs) + 1 - i], event), subs, hs, i + 1, event)

RunHandlers(w, subs, hs, i, event) ==
  IF i > Len(hs) THEN w
  ELSE RunRest(Handle(w, subs, hs[i], event), subs, hs, i + 1, event)

Emit(w, subs, em, event) ==
  IF em = 0 THEN Throw(w, "TypeError")
  ELSE RunHandlers(w, subs, subs[em], 1, event)

\* emitChangeEvent(log, logEntry): the event carries a deep copy of the
\* entry; Object.freeze is called on the event (0 in `frozen`) and on its
\* logEntry, and on nothing below them.
EmitEvent(w, subs, view, logSequenceNumber, c) ==
  Emit([w EXCEPT !.h = c.h], subs, view.em,
       [lsn |-> logSequenceNumber, logEntry |-> c.v, frozen |-> {0, c.v.n}])

emitChangeEvent(w, subs, view, log, logEntry) ==
  EmitEvent(w, subs, view, w.h[log.n].len - 1, CloneDeep(w.h, logEntry, w.h))

\* What the set and deleteProperty traps do after a successful Reflect
\* call: take the log, create the entry, push it, emit the event.
PushAndEmit(w, subs, view, log, e) ==
  emitChangeEvent([w EXCEPT !.h = RawPush(e.h, log.n, e.v)], subs, view, log, e.v)

AppendToLog(w, subs, view, op, p, value, log) ==
  IF log.err # "" THEN Throw(w, "TypeError")
  ELSE IF IsNil(log.v) THEN Throw(w, "TypeError")
  ELSE IF ~IsArray(w.h, log.v) THEN Throw(w, "TypeError")
  ELSE PushAndEmit(w, subs, view, log.v, LogEntry_create(CloneDeep(w.h, value, w.h), op, p))

\* A faulty variant of AppendAndEmit: when a handler throws, the log is put
\* back as it was before the entry was pushed.
AppendAndEmitUndone(w, subs, view, op, p, value) ==
  IF AppendToLog(w, subs, view, op, p, value, ManagedJson__getLog(w.h, Ref(view.root))).err # ""
  THEN Throw(w, AppendToLog(w, subs, view, op, p, value,
                            ManagedJson__getLog(w.h, Ref(view.root))).err)
  ELSE AppendToLog(w, subs, view, op, p, value, ManagedJson__getLog(w.h, Ref(view.root)))

AppendAndEmit(w, subs, view, op, p, value) ==
  AppendToLog(w, subs, view, op, p, value, ManagedJson__getLog(w.h, Ref(view.root)))

\* A faulty variant of SetForwarded: a SET that stores the value the slot
\* already holds is not logged.
SetForwardedIfChanged(w, subs, view, property, value, rs) ==
  IF rs.err # "" THEN Throw(w, rs.err)
  ELSE IF ~rs.success THEN Throw(w, "TypeError")
  ELSE IF GetProp(w.h, view.tgt, property.s) = value THEN [w EXCEPT !.h = rs.h]
  ELSE AppendAndEmit([w EXCEPT !.h = rs.h], subs, view, SET,
                     Append(view.path, property), value)

\* The set trap.
SetForwarded(w, subs, view, property, value, rs) ==
  IF rs.err # "" THEN Throw(w, rs.err)
  ELSE IF ~rs.success THEN Throw(w, "TypeError")
  ELSE AppendAndEmit([w EXCEPT !.h = rs.h], subs, view, SET,
                     Append(view.path, property), value)

Proxy_set(w, subs, view, property, value) ==
  IF view.ro THEN Throw(w, "ReadOnlyViolation")
  ELSE IF ~isValidProperty(property) THEN Throw(w, "InvalidKey")
  ELSE IF ~isAssignable(w.h, value) THEN Throw(w, "NonAssignableValue")
  ELSE SetForwarded(w, subs, view, property, value,
                    ReflectSet(w.h, view.tgt, property.s, value))

\* A faulty variant of DeleteForwarded: the delete is not recorded.
DeleteForwardedUnlogged(w, subs, view, property, rd) ==
  IF ~rd.success THEN Throw(w, "TypeError") ELSE [w EXCEPT !.h = rd.h]

\* The deleteProperty trap.
DeleteForwarded(w, subs, view, property, rd) ==
  IF ~rd.success THEN Throw(w, "TypeError")
  ELSE AppendAndEmit([w EXCEPT !.h = rd.h], subs, view, DELETE,
                     Append(view.path, property), Null)

Proxy_deleteProperty(w, subs, view, property) ==
  IF view.ro THEN Throw(w, "ReadOnlyViolation")
  ELSE DeleteForwarded(w, subs, view, property,
                       ReflectDelete(w.h, view.tgt, KeyOf(property)))

(***************************************************************************)
(* ManagedJson                                                             *)
(***************************************************************************)
NoView == [root |-> 0, tgt |-> 0, path |-> << >>, em |-> 0, ro |-> FALSE]

\* What ManagedJson._validate(object) throws for a view ("" when it returns).
ManagedJson__validate(h, object) ==
  IF ~HasProp(h, object.root, VERSIONING_DATA_PROP) THEN "NotManaged"
  ELSE IF ~IsRef(GetProp(h, object.root, VERSIONING_DATA_PROP)) THEN "TypeError"
  ELSE IF ~HasProp(h, GetProp(h, object.root, VERSIONING_DATA_PROP).n, LOG_PROP)
    THEN "InvalidObject"
  ELSE ""

\* The re-attach branch of create: o carries a truthy __versioning__.  The
\* log is replayed on a copy of log[0].value (a) and the result (r) is
\* compared with o without its versioning data.
ReattachCompare(h, o, a, r) ==
  IF r.err # "" THEN [h |-> h, err |-> r.err]
  ELSE IF ~IsEqual(r.h, a.v, WithoutKey(Plain(h, o), VERSIONING_DATA_PROP))
    THEN [h |-> h, err |-> "InvalidVersioningData"]
  ELSE [h |-> h, err |-> ""]

ReattachReplay(h, o, log, a) ==
  ReattachCompare(h, o, a,
    IF IsArray(h, log) THEN ApplyAll(a.h, a.v, log.n, 1, h[log.n].len - 1)
    ELSE [h |-> a.h, err |-> ""])

ManagedJson_reattach(h, o) ==
  IF ~Truthy(ManagedJson__getLog(h, o).v) THEN [h |-> h, err |-> "InvalidVersioningData"]
  ELSE IF IsNil(Prop(h, ManagedJson__getLog(h, o).v, "0").v) THEN [h |-> h, err |-> "TypeError"]
  ELSE ReattachReplay(h, o, ManagedJson__getLog(h, o).v,
         CloneDeep(h, Prop(h, Prop(h, ManagedJson__getLog(h, o).v, "0").v, "value").v, h))

\* A faulty variant of InstallBlock: the log is installed without its
\* first entry.
InstallBlockEmptyLog(o, e, eventEmitter) ==
  [h |-> ReflectSet(e.h \o <<MkArr(EmptyF, 0),
                             MkObj([k \in {LOG_PROP} |-> Ref(Len(e.h) + 1)])>>,
                    o.v.n, VERSIONING_DATA_PROP, Ref(Len(e.h) + 2)).h,
   err |-> "",
   view |-> NewProxy(o.v.n, createProxyHandler(o.v.n, << >>, eventEmitter, FALSE))]

\* The branch of create for an object without versioning data, e being the
\* first entry: o.__versioning__ = {log: [e]}, and the root view is returned.
InstallBlock(o, e, eventEmitter) ==
  [h |-> ReflectSet(e.h \o <<MkArr([k \in {"0"} |-> e.v], 1),
                             MkObj([k \in {LOG_PROP} |-> Ref(Len(e.h) + 1)])>>,
                    o.v.n, VERSIONING_DATA_PROP, Ref(Len(e.h) + 2)).h,
   err |-> "",
   view |-> NewProxy(o.v.n, createProxyHandler(o.v.n, << >>, eventEmitter, FALSE))]

Reattached(h, o, r, eventEmitter) ==
  IF r.err # "" THEN [h |-> h, err |-> r.err, view |-> NoView]
  ELSE [h |-> o.h, err |-> "",
        view |-> NewProxy(o.v.n, createProxyHandler(o.v.n, << >>, eventEmitter, FALSE))]

\* create after `o = _.cloneDeep(object) || {}`.
CreateFrom(h, object, o, eventEmitter) ==
  IF Truthy(Prop(o.h, o.v, VERSIONING_DATA_PROP).v)
    THEN Reattached(h, o, ManagedJson_reattach(o.h, o.v), eventEmitter)
  ELSE IF ~IsRef(o.v) THEN [h |-> h, err |-> "TypeError", view |-> NoView]
  ELSE InstallBlock(o, LogEntry_create(CloneDeep(o.h, object, o.h), SET, << >>), eventEmitter)

\* `_.cloneDeep(object) || {}`, c being the copy.
OrEmptyObject(c) ==
  IF Truthy(c.v) THEN c ELSE [h |-> Append(c.h, MkObj(EmptyF)), v |-> Ref(Len(c.h) + 1)]

\* A faulty variant of create: the document is built on the caller's object.
ManagedJson_createInPlace(h, object, eventEmitter) ==
  IF ~isManageable(h, object) THEN [h |-> h, err |-> "NonManageable", view |-> NoView]
  ELSE CreateFrom(h, object, OrEmptyObject([h |-> h, v |-> object]), eventEmitter)

\* ManagedJson.create(object) for an unmanaged value, eventEmitter being the
\* emitter made for the document: the heap with the new document and its
\* root view, or the error thrown.
ManagedJson_create(h, object, eventEmitter) ==
  IF ~isManageable(h, object) THEN [h |-> h, err |-> "NonManageable", view |-> NoView]
  ELSE CreateFrom(h, object, OrEmptyObject(CloneDeep(h, object, h)), eventEmitter)

\* ManagedJson.isManaged(object).  For a view the get trap answers the
\* hidden property with the root object; a plain value (a record of its
\* heap h and the value v) is an object of its own and is asked for the
\* property itself.
ORIGINAL_ROOT_HIDDEN_PROP == "Symbol(rootObject)"
\* A faulty variant of isManaged: a plain value counts as managed when it
\* carries versioning data.
ManagedJson_isManagedByData(object) ==
  IF "root" \in DOMAIN object THEN object.root # 0
  ELSE IsRef(object.v) /\ HasProp(object.h, object.v.n, VERSIONING_DATA_PROP)
ManagedJson_isManaged(object) ==
  IF "root" \in DOMAIN object THEN object.root # 0
  ELSE IsRef(object.v) /\ Truthy(GetProp(object.h, object.v.n, ORIGINAL_ROOT_HIDDEN_PROP))

\* ManagedJson.versionCount(object): the log is read through the view
\* itself, object[VERSIONING_DATA_PROP][LOG_PROP].length.
ManagedJson_versionCount(h, object) ==
  IF ManagedJson__validate(h, object) # ""
    THEN [err |-> ManagedJson__validate(h, object), v |-> Undefined]
  ELSE Prop(h, ManagedJson__getLog(h, Ref(object.tgt)).v, "length")

\* The walk `nav` of restoreVersion: the value at path p (from its i-th
\* element on) of o, undefined as soon as a value on the way is falsy.
RECURSIVE nav(_, _, _, _)
NavInto(h, n, p, i) == IF Truthy(n) THEN nav(h, n, p, i) ELSE Undefined

nav(h, o, p, i) ==
  IF i > Len(p) THEN o ELSE NavInto(h, Prop(h, o, KeyOf(p[i])).v, p, i + 1)

\* ManagedJson.restoreVersion(object, versionId): the value returned (v, in
\* the heap h the call leaves) and its structure, or the error thrown.
RestoreNav(object, o, r) ==
  IF r.err # "" THEN [err |-> r.err, flat |-> {}]
  ELSE [err |-> "", flat |-> Flat(r.h, nav(r.h, o.v, object.path, 1)),
        h |-> r.h, v |-> nav(r.h, o.v, object.path, 1)]

RestoreApply(object, log, versionId, o) ==
  RestoreNav(object, o, ApplyAll(o.h, o.v, log.n, 1, versionId))

ManagedJson_restoreVersion(h, object, versionId) ==
  IF ManagedJson__validate(h, object) # ""
    THEN [err |-> ManagedJson__validate(h, object), flat |-> {}]
  ELSE IF ~IsArray(h, ManagedJson__getLog(h, Ref(object.root)).v)
    THEN [err |-> "TypeError", flat |-> {}]
  ELSE IF versionId >= h[ManagedJson__getLog(h, Ref(object.root)).v.n].len \/ versionId < 0
    THEN [err |-> "InvalidVersionId", flat |-> {}]
  ELSE IF IsNil(Prop(h, ManagedJson__getLog(h, Ref(object.root)).v, "0").v)
    THEN [err |-> "TypeError", flat |-> {}]
  ELSE RestoreApply(object, ManagedJson__getLog(h, Ref(object.root)).v, versionId,
         CloneDeep(h, Prop(h, Prop(h, ManagedJson__getLog(h, Ref(object.root)).v, "0").v,
                           "value").v, h))

\* ManagedJson.detach(object): the copy returned (p, a plain value) and its
\* structure (flat).
ManagedJson_detach(h, object) ==
  IF ManagedJson__validate(h, object) # ""
    THEN [err |-> ManagedJson__validate(h, object), flat |-> {},
          p |-> [h |-> << >>, v |-> Undefined]]
  ELSE [err |-> "",
        flat |-> FlatP(WithoutKey(Plain(h, Ref(object.tgt)), VERSIONING_DATA_PROP)),
        p |-> WithoutKey(Plain(h, Ref(object.tgt)), VERSIONING_DATA_PROP)]

\* ManagedJson.detachPreserveVersionData(object): the copy p, a plain value.
ManagedJson_detachPreserveVersionData(h, object) ==
  IF ManagedJson__validate(h, object) # ""
    THEN [err |-> ManagedJson__validate(h, object), p |-> [h |-> << >>, v |-> Undefined]]
  ELSE [err |-> "", p |-> Plain(h, Ref(object.tgt))]

\* ManagedJson.getRootObject(object), for an object that passed _validate.
\* root[EVENT_EMITTER_HIDDEN_PROP] is read from the plain root object, which
\* has no such property: the emitter of the view is undefined (0).
ManagedJson_getRootObject(object) ==
  NewProxy(object.root, createProxyHandler(object.root, << >>, 0, FALSE))

\* ManagedJson.getLog(object): the log array itself, not a view of it.
ManagedJson_getLog(h, object) ==
  IF ManagedJson__validate(h, object) # ""
    THEN [err |-> ManagedJson__validate(h, object), v |-> Undefined]
  ELSE ManagedJson__getLog(h, Ref(ManagedJson_getRootObject(object).root))

\* ManagedJson.eventEmitter(object): object[EVENT_EMITTER_HIDDEN_PROP], which
\* the get trap answers with the emitter of the view's handler.
ManagedJson_eventEmitter(h, object) ==
  IF ManagedJson__validate(h, object) # ""
    THEN [err |-> ManagedJson__validate(h, object), v |-> 0]
  ELSE [err |-> "", v |-> object.em]

\* A faulty variant of MinusOne: the length itself.
MinusOneOmitted(x) == x

\* x - 1 for the value x of a length field (NaN when x is no number).
MinusOne(x) ==
  CASE x.t = "number" /\ x.s = "" -> Num(x.n - 1)
    [] x.t = "null" -> Num(0 - 1)
    [] OTHER -> NaN

\* ManagedJson.getSnapshot(object): a plain value, the copy detach makes
\* (s) with __versioning__ = {lsn: getLog(object).length - 1}.
SnapshotWith(s, lsn) ==
  [err |-> "",
   h |-> ReflectSet(Append(s.h, MkObj([k \in {LSN_PROP} |-> lsn])),
                    s.v.n, VERSIONING_DATA_PROP, Ref(Len(s.h) + 1)).h,
   v |-> s.v]

ManagedJson_getSnapshot(h, object) ==
  IF ManagedJson_getLog(h, object).err # ""
    THEN [err |-> ManagedJson_getLog(h, object).err, h |-> << >>, v |-> Undefined]
  ELSE IF IsNil(ManagedJson_getLog(h, object).v)
    THEN [err |-> "TypeError", h |-> << >>, v |-> Undefined]
  ELSE SnapshotWith(WithoutKey(Plain(h, Ref(object.tgt)), VERSIONING_DATA_PROP),
                    MinusOne(Prop(h, ManagedJson_getLog(h, object).v, "length").v))

(***************************************************************************)
(* Replica                                                                 *)
(***************************************************************************)
\* What createFromSnapshot throws for the snapshot, a value of heap sh.
SnapshotError(sh, snapshot) ==
  IF ~IsRef(snapshot) THEN "InvalidSnapshot"
  ELSE IF ~isManageable(sh, snapshot) THEN "NonManageable"
  ELSE IF ~HasProp(sh, snapshot.n, VERSIONING_DATA_PROP) THEN "InvalidSnapshot"
  ELSE IF GetProp(sh, snapshot.n, VERSIONING_DATA_PROP).t = "null" THEN "TypeError"
  ELSE IF ~IsRef(GetProp(sh, snapshot.n, VERSIONING_DATA_PROP)) THEN "InvalidSnapshot"
  ELSE IF ~HasProp(sh, GetProp(sh, snapshot.n, VERSIONING_DATA_PROP).n, LSN_PROP)
    THEN "InvalidSnapshot"
  ELSE IF GetProp(sh, GetProp(sh, snapshot.n, VERSIONING_DATA_PROP).n, LSN_PROP).t # "number"
    THEN "InvalidSnapshot"
  ELSE ""

\* The replica made of the copy `clone` of the snapshot: a read-only view.
ReplicaOf(clone, eventEmitter) ==
  [err |-> "", h |-> clone.h,
   view |-> NewProxy(clone.v.n, createProxyHandler(clone.v.n, << >>, eventEmitter, TRUE))]

\* A faulty variant of Replica_createFromSnapshot: the replica is a view of
\* the snapshot itself when the snapshot lives in the program's heap.
Replica_createFromSnapshotShared(h, sh, snapshot, eventEmitter) ==
  IF SnapshotError(sh, snapshot) # ""
    THEN [err |-> SnapshotError(sh, snapshot), h |-> h, view |-> NoView]
  ELSE IF sh = h THEN ReplicaOf([h |-> h, v |-> snapshot], eventEmitter)
  ELSE ReplicaOf(CloneDeep(sh, snapshot, h), eventEmitter)

\* Replica.createFromSnapshot(snapshot), the snapshot being a value of heap
\* sh and eventEmitter the emitter made for the replica: the program's heap
\* with the replica's tree, and the replica's root view.
Replica_createFromSnapshot(h, sh, snapshot, eventEmitter) ==
  IF SnapshotError(sh, snapshot) # ""
    THEN [err |-> SnapshotError(sh, snapshot), h |-> h, view |-> NoView]
  ELSE ReplicaOf(CloneDeep(sh, snapshot, h), eventEmitter)

\* Replica.create(object): from a replica's own tree, or from a snapshot (s)
\* of a managed document.
FromSnapshotOf(h, s, eventEmitter) ==
  IF s.err # "" THEN [err |-> s.err, h |-> h, view |-> NoView]
  ELSE Replica_createFromSnapshot(h, s.h, s.v, eventEmitter)

Replica_create(h, object, eventEmitter) ==
  IF Replica_isReplica(h, object)
  THEN Replica_createFromSnapshot(h, h, Ref(object.root), eventEmitter)
  ELSE FromSnapshotOf(h, ManagedJson_getSnapshot(h, object), eventEmitter)

\* Replica.detach(object): the structure of the copy returned.
Replica_detach(h, object) ==
  FlatP(WithoutKey(Plain(h, Ref(object.tgt)), VERSIONING_DATA_PROP))

\* root[VERSIONING_DATA_PROP][LSN_PROP] of a replica.
Replica_lsn(h, object) ==
  Prop(h, Prop(h, Ref(object.root), VERSIONING_DATA_PROP).v, LSN_PROP).v

(***************************************************************************)
(* The state: the heap, the document D (its root view, as create returned  *)
(* it), the replicas (their root views), the other views the client holds, *)
(* the handlers registered on each emitter, the events each observer has   *)
(* received, the last call the client made, the number of calls that       *)
(* changed the heap, the number of Replica.apply calls the client made,    *)
(* and the history of D: the value detach(D) had after each log entry was  *)
(* appended.                                                               *)
(***************************************************************************)
VARIABLES heap, doc, reps, views, subs, seen, last, writes, applies, hist

vars == <<heap, doc, reps, views, subs, seen, last, writes, applies, hist>>

\* Bounds of the model.
MaxWrites == 2
MaxViews == 1
MaxApplies == 2

\* Plain values the client passes in.
PVal(v) == [h |-> << >>, v |-> v]
PEmpty == [h |-> <<MkObj(EmptyF)>>, v |-> Ref(1)]
PObj(k, v) == [h |-> <<MkObj([x \in {k} |-> v])>>, v |-> Ref(1)]
PNest(k, o) == [h |-> <<MkObj([x \in {k} |-> Ref(2)]), o>>, v |-> Ref(1)]

InitPlains == {PEmpty, PObj("a", Num(1)), PNest("a", MkObj(EmptyF)),
               PNest("a", MkArr([x \in {"0"} |-> Num(0)], 1))}
\* {a: 1, __versioning__: {log: [{set, [], {}}, {set, ["a"], 1}]}}: what
\* detachPreserveVersionData gives for a document {} after `a = 1`.
PReattachable ==
  [h |-> <<MkObj([x \in {"a", VERSIONING_DATA_PROP} |-> IF x = "a" THEN Num(1) ELSE Ref(2)]),
           MkObj([x \in {LOG_PROP} |-> Ref(3)]),
           MkArr([x \in {"0", "1"} |-> IF x = "0" THEN Ref(4) ELSE Ref(7)], 2),
           EntryOf(SET, Ref(5), Ref(6)), MkArr(EmptyF, 0), MkObj(EmptyF),
           EntryOf(SET, Ref(8), Num(1)), MkArr([x \in {"0"} |-> Str("a")], 1)>>,
   v |-> Ref(1)]

\* Manageable mappings, with and without the reserved key at the root.
CreatePlains ==
  {PEmpty, PReattachable,
   [PReattachable EXCEPT !.h[1].f = Put(@, "a", Num(2))],
   [PReattachable EXCEPT !.h[1].f = Put(@, "b", Num(1))]}
    \cup {PObj(k, v) : k \in {"a", VERSIONING_DATA_PROP},
                       v \in {Num(0), Num(1), Null, Undefined, Str("x")}}
    \cup {PNest(k, o) : k \in {"a", VERSIONING_DATA_PROP},
                        o \in {MkObj(EmptyF), MkArr([x \in {"0"} |-> Num(0)], 1),
                               MkObj([x \in {LOG_PROP} |-> Null])}}
    \cup {[h |-> <<MkObj([x \in {"b", k} |-> IF x = "b" THEN v1 ELSE v2])>>, v |-> Ref(1)] :
             k \in {"a", VERSIONING_DATA_PROP}, v1 \in {Num(0), Num(1), Null, Undefined, Str("x")},
             v2 \in {Num(0), Num(1), Null, Undefined, Str("x")}}
SetPlains == {PVal(Num(2)), PEmpty}
UserKeys == {"a", "b"}
BlockKeys == {VERSIONING_DATA_PROP, LOG_PROP, "0", "op"}

\* A plain value placed in the program's heap (the caller's own object).
Alloc(h, p) == CloneDeep(p.h, p.v, h)

\* new EventEmitter(): the emitters are numbered in the order they are made.
NewEmitter(s) == Len(s) + 1

Recorder(i) == [kind |-> "record", obs |-> i, r |-> NoView, what |-> ""]
Applier(r) == [kind |-> "apply", obs |-> 0, r |-> r, what |-> ""]
\* A handler of the client that throws ("throw") or that tries to change
\* one part of the event it receives ("mutate").
Handler(kind, what) == [kind |-> kind, obs |-> 0, r |-> NoView, what |-> what]

\* The world a call starts in: the heap, the events seen, no error, and
\* the history of D, which a call of several trap calls extends as it goes.
World == [h |-> heap, seen |-> seen, err |-> "", hist |-> hist]

\* The record of a call: the operation, the view it was made on (its root,
\* its read-only flag and its path), the key, the error thrown, and what
\* the call returned.
Call(op, view, key, err, n, a, b, c) ==
  [op |-> op, root |-> view.root, ro |-> view.ro, path |-> view.path, key |-> key,
   err |-> err, n |-> n, a |-> a, b |-> b, c |-> c]

\* The log of the document at root address r, as a structure ({} if none).
LogFlat(h, r) ==
  IF ManagedJson__getLog(h, Ref(r)).err # "" THEN {}
  ELSE Flat(h, ManagedJson__getLog(h, Ref(r)).v)

\* The length of that log (0 if there is none).
LogLen(h, r) ==
  IF ManagedJson__getLog(h, Ref(r)).err = "" /\ IsArray(h, ManagedJson__getLog(h, Ref(r)).v)
  THEN h[ManagedJson__getLog(h, Ref(r)).v.n].len
  ELSE 0

\* What create returned (r): versionCount, detach and the log of the new
\* document; b is the structure of the value create was given.
CreateCall(op, b, r) ==
  IF r.err # "" THEN Call(op, NoView, "", r.err, Undefined, {}, b, {})
  ELSE Call(op, NoView, "", "", ManagedJson_versionCount(r.h, r.view).v,
            ManagedJson_detach(r.h, r.view).flat, b, LogFlat(r.h, r.view.root))

\* D = ManagedJson.create(p), with one observer registered on its emitter.
Init ==
  \E p \in InitPlains : \E r \in {ManagedJson_create(p.h, p.v, NewEmitter(<< >>))} :
    /\ r.err = ""
    /\ heap = r.h
    /\ doc = r.view
    /\ reps = << >>
    /\ views = {}
    /\ subs = <<<<Recorder(1)>>>>
    /\ seen = <<<< >>>>
    /\ last = CreateCall("create", FlatP(p), r)
    /\ writes = 0
    /\ applies = 0
    /\ hist = <<ManagedJson_detach(r.h, r.view).flat>>

Held == {doc} \cup views \cup {reps[i] : i \in 1..Len(reps)}

\* x = v[k], or v = v[k]: the client keeps the nested view it read.
Get(v, k) ==
  \E g \in {Proxy_get(heap, v, Str(k))} :
    /\ g.isView
    /\ g.view \notin Held
    /\ views' = IF Cardinality(views) < MaxViews THEN views \cup {g.view}
                ELSE (views \ {v}) \cup {g.view}
    /\ Cardinality(views) < MaxViews \/ v \in views
    /\ last' = Call("get", NoView, "", "", Undefined, {}, {}, {})
    /\ UNCHANGED <<heap, doc, reps, subs, seen, writes, applies, hist>>

\* x = ManagedJson.getRootObject(v)
GetRootObject(v) ==
  IF ManagedJson__validate(heap, v) = "" THEN
    /\ ManagedJson_getRootObject(v) \notin Held
    /\ Cardinality(views) < MaxViews
    /\ views' = views \cup {ManagedJson_getRootObject(v)}
    /\ last' = Call("getRootObject", v, "", "", Undefined, {}, {}, {})
    /\ UNCHANGED <<heap, doc, reps, subs, seen, writes, applies, hist>>
  ELSE
    /\ last' = Call("getRootObject", v, "", ManagedJson__validate(heap, v), Undefined,
                    {}, {}, {})
    /\ UNCHANGED <<heap, doc, reps, views, subs, seen, writes, applies, hist>>

\* The history of D after a step from heap h0 to heap h1.
HistAfter(hs, h0, h1) ==
  IF LogLen(h1, doc.root) > LogLen(h0, doc.root)
  THEN Append(hs, ManagedJson_detach(h1, doc).flat)
  ELSE hs

\* The state after a call that ran in world w (h0 is the heap the call
\* started from, with the caller's argument in it).
AfterCall(w, h0, call, hs) ==
  /\ heap' = IF w.h = h0 THEN heap ELSE w.h
  /\ seen' = w.seen
  /\ writes' = IF w.h = h0 THEN writes ELSE writes + 1
  /\ last' = call
  /\ hist' = hs
  /\ UNCHANGED <<doc, reps, views, subs, applies>>

\* v[k] = p
Set(v, k, p) ==
  /\ writes < MaxWrites
  /\ \E a \in {Alloc(heap, p)} :
       \E w \in {Proxy_set([World EXCEPT !.h = a.h], subs, v, Str(k), a.v)} :
         AfterCall(w, a.h, Call("set", v, k, w.err, Undefined, {}, {}, {}),
                   HistAfter(hist, heap, w.h))

\* delete v[k]
Delete(v, k) ==
  /\ writes < MaxWrites
  /\ \E w \in {Proxy_deleteProperty(World, subs, v, Str(k))} :
       AfterCall(w, heap, Call("delete", v, k, w.err, Undefined, {}, {}, {}),
                 HistAfter(hist, heap, w.h))

\* v.push(p) on a view of an array: Array.prototype.push reads the length,
\* sets the element at that index, then sets the length, through the traps.
Push(v, p) ==
  /\ writes < MaxWrites
  /\ IsArray(heap, Ref(v.tgt))
  /\ \E a \in {Alloc(heap, p)} :
       \E w1 \in {Proxy_set([World EXCEPT !.h = a.h], subs, v,
                             Str(ToStr(heap[v.tgt].len)), a.v)} :
         \E w2 \in {IF w1.err # "" THEN w1
                     ELSE Proxy_set(w1, subs, v, Str("length"), Num(heap[v.tgt].len + 1))} :
           AfterCall(w2, a.h, Call("push", v, "", w2.err, Undefined, {}, {}, {}),
                     HistAfter(HistAfter(hist, heap, w1.h), w1.h, w2.h))

\* ManagedJson.getLog(v).push(42), ManagedJson.getLog(v).length = 0:
\* getLog hands out the log array itself.
LogMutation(v, m) ==
  /\ writes < MaxWrites
  /\ \E log \in {ManagedJson_getLog(heap, v)} :
       /\ log.err = ""
       /\ IsArray(heap, log.v)
       /\ AfterCall([World EXCEPT !.h = IF m = "push" THEN RawPush(heap, log.v.n, Num(42))
                                        ELSE ReflectSet(heap, log.v.n, "length", Num(0)).h],
                    heap, Call("getLog", v, m, "", Undefined, {}, {}, {}),
                    HistAfter(hist, heap, heap))

\* E = ManagedJson.create(ManagedJson.detachPreserveVersionData(D)); what
\* the call returned is recorded, E itself is not kept.
Reattach ==
  \E d \in {ManagedJson_detachPreserveVersionData(heap, doc)} :
    /\ d.err = ""
    /\ last' = CreateCall("reattach", {}, ManagedJson_create(d.p.h, d.p.v, NewEmitter(subs)))
    /\ UNCHANGED <<heap, doc, reps, views, subs, seen, writes, applies, hist>>

\* ManagedJson.create(p) for a plain value p, recorded as the operation op;
\* the document is not kept.
Create(op, p) ==
  /\ last' = CreateCall(op, FlatP(p), ManagedJson_create(p.h, p.v, NewEmitter(subs)))
  /\ UNCHANGED <<heap, doc, reps, views, subs, seen, writes, applies, hist>>

\* ManagedJson.restoreVersion(v, k)
RestoreVersion(v, k) ==
  \E r \in {ManagedJson_restoreVersion(heap, v, k)} :
    /\ last' = Call("restoreVersion", v, "", r.err, Num(k), r.flat, {}, {})
    /\ UNCHANGED <<heap, doc, reps, views, subs, seen, writes, applies, hist>>

Next ==
  \/ \E v \in Held, k \in UserKeys : Get(v, k)
  \/ \E v \in Held : GetRootObject(v)
  \/ \E v \in Held, k \in UserKeys, p \in SetPlains : Set(v, k, p)
  \/ \E v \in Held, k \in UserKeys : Delete(v, k)
  \/ Reattach
  \/ \E v \in Held, k \in 0..MaxWrites : RestoreVersion(v, k)

Spec == Init /\ [][Next]_vars

\* Values the set trap must refuse: a function, a symbol, a class instance,
\* and containers holding one of them or a symbol key, at depth 1, 2 and 3.
PDeep(v) ==
  [h |-> <<MkObj([x \in {"b"} |-> Ref(2)]), MkObj([x \in {"fn"} |-> Ref(3)]),
           MkArr([x \in {"0"} |-> v], 1)>>,
   v |-> Ref(1)]
BadPlains ==
  {PVal(Fn), PVal(Sym), [h |-> <<MkInst(EmptyF)>>, v |-> Ref(1)], PObj("fn", Fn), PObj("s", Sym), PObj(SymbolKey, Num(2)),
   PNest("b", MkObj([x \in {"fn"} |-> Fn])), PNest("b", MkArr([x \in {"0"} |-> Fn], 1)),
   PNest("b", MkArr([x \in {"0"} |-> Sym], 1)), PNest("b", MkObj([x \in {SymbolKey} |-> Num(1)])),
   PNest("b", MkInst(EmptyF)), PDeep(Fn), PDeep(Sym)}




\* A call that returns a value and changes nothing: detach(v),
\* detachPreserveVersionData(v), getSnapshot(v) or versionCount(v).
Read(v, op) ==
  /\ last' =
       CASE op = "detach" ->
              Call(op, v, "", ManagedJson_detach(heap, v).err, Undefined,
                   ManagedJson_detach(heap, v).flat, {}, {})
         [] op = "detachPreserveVersionData" ->
              Call(op, v, "", ManagedJson_detachPreserveVersionData(heap, v).err, Undefined,
                   FlatP(ManagedJson_detachPreserveVersionData(heap, v).p), {}, {})
         [] op = "getSnapshot" ->
              Call(op, v, "", ManagedJson_getSnapshot(heap, v).err, Undefined,
                   Flat(ManagedJson_getSnapshot(heap, v).h, ManagedJson_getSnapshot(heap, v).v),
                   {}, {})
         [] OTHER ->
              Call(op, v, "", ManagedJson_versionCount(heap, v).err,
                   ManagedJson_versionCount(heap, v).v, {}, {}, {})
  /\ UNCHANGED <<heap, doc, reps, views, subs, seen, writes, applies, hist>>

(***************************************************************************)
(* ManagedJson.create on plain values of many shapes.                      *)
(***************************************************************************)
\* create is called with manageable mappings, with values that are not
\* manageable roots, and with a view.
\* PReattachable with a versioning block of the client's making: entry 0 of
\* the log is a DELETE, or has the path ['a'], or the log is empty.  In the
\* first two the replay of the log onto log[0].value still gives the tree.
TamperedPlains ==
  {[PReattachable EXCEPT !.h[4].f["op"] = DELETE],
   [PReattachable EXCEPT !.h[5] = ArrayOf(<<Str("a")>>)],
   [PReattachable EXCEPT !.h[3] = MkArr(EmptyF, 0)]}

NextCreate ==
  \/ \E p \in CreatePlains : Create("create", p)
  \/ \E p \in TamperedPlains : Create("createTampered", p)
  \/ \E p \in BadPlains \cup
               {PVal(Null), PVal(Undefined), PVal(Num(42)), PVal(Num(0)), PVal(NaN),
                PVal(Str("")), PVal(Str("x")), PVal(Bool(FALSE)), PVal(Bool(TRUE)),
                [h |-> <<MkArr(EmptyF, 0)>>, v |-> Ref(1)]} : Create("createRoot", p)
  \/ \E v \in Held :
       /\ last' = Call("createView", v, "", IF ManagedJson_isManaged(v) THEN "TypeError" ELSE "",
                       Undefined, {}, {}, {})
       /\ UNCHANGED <<heap, doc, reps, views, subs, seen, writes, applies, hist>>

SpecCreate == Init /\ [][NextCreate]_vars

(***************************************************************************)
(* The document with views into its versioning block, and the log that     *)
(* getLog hands out.                                                       *)
(***************************************************************************)
NextBlock ==
  \/ \E v \in Held, k \in BlockKeys : Get(v, k)
  \/ \E v \in Held, k \in BlockKeys \cup {"a", "length"}, p \in SetPlains : Set(v, k, p)
  \/ \E v \in Held, k \in BlockKeys \cup {"a"} : Delete(v, k)
  \/ \E v \in Held, m \in {"push", "length"} : LogMutation(v, m)
  \/ Set(doc, VERSIONING_DATA_PROP, PNest(LOG_PROP, MkArr(EmptyF, 0)))

SpecBlock == Init /\ [][NextBlock]_vars

(***************************************************************************)
(* The document D with two replicas: R1 = Replica.create(D), subscribed to *)
(* D's emitter with a handler that passes each event to Replica.apply, and *)
(* R2 = Replica.create(R1), not subscribed: the client applies events to   *)
(* it by hand.  An observer is registered on each emitter (on D's emitter  *)
(* before R1's handler).                                                   *)
(***************************************************************************)
\* The values D is created from.
ReplicaPlains == {PObj("a", Num(1)), PNest("a", MkArr([x \in {"0"} |-> Num(0)], 1))}

InitReplica ==
  \E p \in ReplicaPlains : \E d \in {ManagedJson_create(p.h, p.v, NewEmitter(<< >>))} :
    \E r1 \in {Replica_create(d.h, d.view, NewEmitter(<<<< >>>>))} :
      \E r2 \in {Replica_create(r1.h, r1.view, NewEmitter(<<<< >>, << >>>>))} :
        /\ d.err = "" /\ r1.err = "" /\ r2.err = ""
        /\ heap = r2.h
        /\ doc = d.view
        /\ reps = <<r1.view, r2.view>>
        /\ views = {}
        /\ subs = <<<<Recorder(1), Applier(r1.view)>>, <<Recorder(2)>>, <<Recorder(3)>>>>
        /\ seen = <<<< >>, << >>, << >>>>
        /\ last = Call("Replica.create", r2.view, "", "", Replica_lsn(r2.h, r2.view),
                       {}, {}, {})
        /\ writes = 0
        /\ applies = 0
        /\ hist = <<ManagedJson_detach(r2.h, d.view).flat>>

\* Replica.apply(reps[i], e), called by the client with one of the change
\* events D's emitter has delivered.
Apply(i, e) ==
  /\ applies < MaxApplies
  /\ \E w \in {Replica_apply(World, subs, reps[i], e)} :
       /\ heap' = w.h
       /\ seen' = w.seen
       /\ applies' = applies + 1
       /\ last' = Call("apply", reps[i], "", w.err, Num(e.lsn), {}, {}, {})
       /\ UNCHANGED <<doc, reps, views, subs, writes, hist>>

NextReplica ==
  \/ \E v \in Held, k \in UserKeys \cup {VERSIONING_DATA_PROP} : Get(v, k)
  \/ \E v \in Held, k \in UserKeys, p \in SetPlains : Set(v, k, p)
  \/ \E v \in Held, k \in UserKeys : Delete(v, k)
  \/ \E v \in Held, p \in SetPlains : Push(v, p)
  \/ \E i \in 1..Len(reps), j \in 1..Len(seen[1]) : Apply(i, seen[1][j])

SpecReplica == InitReplica /\ [][NextReplica]_vars

(***************************************************************************)
(* The chain D -> R1 -> R2: R1 = Replica.create(D) is subscribed to D's    *)
(* emitter and R2 = Replica.create(R1) to R1's emitter, each with a        *)
(* handler that passes the event to Replica.apply.  An observer is         *)
(* registered on each emitter, before the replica's handler.               *)
(***************************************************************************)
InitChain ==
  \E p \in ReplicaPlains : \E d \in {ManagedJson_create(p.h, p.v, NewEmitter(<< >>))} :
    \E r1 \in {Replica_create(d.h, d.view, NewEmitter(<<<< >>>>))} :
      \E r2 \in {Replica_create(r1.h, r1.view, NewEmitter(<<<< >>, << >>>>))} :
        /\ d.err = "" /\ r1.err = "" /\ r2.err = ""
        /\ heap = r2.h
        /\ doc = d.view
        /\ reps = <<r1.view, r2.view>>
        /\ views = {}
        /\ subs = <<<<Recorder(1), Applier(r1.view)>>, <<Recorder(2), Applier(r2.view)>>,
                    <<Recorder(3)>>>>
        /\ seen = <<<< >>, << >>, << >>>>
        /\ last = Call("Replica.create", r2.view, "", "", Replica_lsn(r2.h, r2.view),
                       {}, {}, {})
        /\ writes = 0
        /\ applies = 0
        /\ hist = <<ManagedJson_detach(r2.h, d.view).flat>>

SpecChain == InitChain /\ [][NextReplica]_vars

(***************************************************************************)
(* Replicas made while the document changes, none of them subscribed to    *)
(* its source: the client passes events to Replica.apply by hand.          *)
(***************************************************************************)
MaxReplicas == 2

\* R = Replica.create(v) for the document or a replica; an observer is
\* registered on R's emitter.  The call record holds R's lsn and tree.
MakeReplica(v) ==
  /\ Len(reps) < MaxReplicas
  /\ \E r \in {Replica_create(heap, v, NewEmitter(subs))} :
       IF r.err = "" THEN
         /\ heap' = r.h
         /\ reps' = Append(reps, r.view)
         /\ subs' = Append(subs, <<Recorder(NewEmitter(subs))>>)
         /\ seen' = Append(seen, << >>)
         /\ last' = Call("Replica.create", v, "", "", Replica_lsn(r.h, r.view),
                         Replica_detach(r.h, r.view), {}, {})
         /\ UNCHANGED <<doc, views, writes, applies, hist>>
       ELSE
         /\ last' = Call("Replica.create", v, "", r.err, Undefined, {}, {}, {})
         /\ UNCHANGED <<heap, doc, reps, views, subs, seen, writes, applies, hist>>

NextUnlinked ==
  \/ \E v \in Held, k \in UserKeys, p \in SetPlains : Set(v, k, p)
  \/ \E v \in Held, k \in UserKeys : Delete(v, k)
  \/ \E v \in {doc} \cup {reps[i] : i \in 1..Len(reps)} : MakeReplica(v)
  \/ \E i \in 1..Len(reps), j \in 1..Len(seen[1]) : Apply(i, seen[1][j])

SpecUnlinked == Init /\ [][NextUnlinked]_vars

(***************************************************************************)
(* Writes and creations at the boundary: values that are views, keys and   *)
(* values the set trap refuses, roots create refuses.                      *)
(***************************************************************************)
\* The state after v[k] = x for a view x, the call having run in world w
\* from heap h0.  The tree then holds the view itself; what the stored view
\* does on later writes is not modelled, so the run makes no further write.
AfterAttach(w, h0, call) ==
  /\ heap' = IF w.h = h0 THEN heap ELSE w.h
  /\ seen' = w.seen
  /\ writes' = IF w.h = h0 THEN writes ELSE MaxWrites
  /\ last' = call
  /\ hist' = HistAfter(hist, heap, w.h)
  /\ UNCHANGED <<doc, reps, views, subs, applies>>

\* v[k] = x, x being a nested view of the same document that does not
\* contain v's target (`m.y = m.x`).  A Proxy without further traps reads as
\* its target does, for isAssignable and for _.cloneDeep.
SetView(v, k, x) ==
  /\ writes < MaxWrites
  /\ x.root = v.root
  /\ x.path # << >>
  /\ v.tgt \notin ReachFrom(heap, {x.tgt}, {})
  /\ \E w \in {Proxy_set(World, subs, v, Str(k), Ref(x.tgt))} :
       AfterAttach(w, heap, Call("setView", v, k, w.err, Undefined, {}, {}, {}))

\* m2 = ManagedJson.create(p); v[k] = m2
SetOther(v, k, p) ==
  /\ writes < MaxWrites
  /\ \E a \in {Alloc(heap, p)} :
       \E m2 \in {ManagedJson_create(a.h, a.v, NewEmitter(subs))} :
         /\ m2.err = ""
         /\ \E w \in {Proxy_set([World EXCEPT !.h = m2.h], subs, v, Str(k),
                                Ref(m2.view.root))} :
              AfterAttach(w, m2.h, Call("setOther", v, k, w.err, Undefined, {}, {}, {}))


\* v[property] = p, recorded as the operation op together with the value
\* the caller passed (its own object, which it still holds after the call).
SetAs(op, v, property, p) ==
  /\ writes < MaxWrites
  /\ \E a \in {Alloc(heap, p)} :
       \E w \in {Proxy_set([World EXCEPT !.h = a.h], subs, v, property, a.v)} :
         AfterCall(w, a.h, Call(op, v, KeyOf(property), w.err, a.v, {}, {}, {}),
                   HistAfter(hist, heap, w.h))

NextBoundary ==
  \/ \E v \in Held, k \in UserKeys : Get(v, k)
  \/ \E v \in Held, k \in UserKeys, p \in SetPlains : Set(v, k, p)
  \/ \E v \in Held, k \in UserKeys, x \in views : SetView(v, k, x)
  \/ \E v \in Held, k \in UserKeys, p \in InitPlains : SetOther(v, k, p)
  \/ \E v \in Held, p \in SetPlains \cup BadPlains : SetAs("setSymbol", v, Sym, p)
  \/ \E v \in Held, k \in UserKeys, p \in BadPlains : SetAs("setBad", v, Str(k), p)

SpecBoundary == Init /\ [][NextBoundary]_vars

(***************************************************************************)
(* Writes through views and restoreVersion with version ids below, inside  *)
(* and above the log.                                                      *)
(***************************************************************************)
NextVersions ==
  \/ \E v \in Held, k \in UserKeys : Get(v, k)
  \/ \E v \in Held, k \in UserKeys, p \in SetPlains : Set(v, k, p)
  \/ \E v \in Held, k \in UserKeys : Delete(v, k)
  \/ \E v \in Held, k \in (0 - 1)..(MaxWrites + 1) : RestoreVersion(v, k)

SpecVersions == Init /\ [][NextVersions]_vars

(***************************************************************************)
(* The document D and a replica R = Replica.create(D), with handlers on    *)
(* D's emitter that throw, try to change the event they receive or observe  *)
(* the document when they are called; the                                  *)
(* client can take such a handler off the emitter again.                   *)
(***************************************************************************)
HandlerLists(r) ==
  {<<Handler("throw", "")>> \o <<Recorder(1)>>, <<Recorder(1)>> \o <<Handler("throw", "")>>}
    \cup {<<Handler("mutate", t), Recorder(1), Applier(r)>> :
             t \in {"event", "logEntry", "path", "value"}}
    \cup {<<[Recorder(1) EXCEPT !.kind = "observe"], Applier(r)>>,
          <<Handler("throw", ""), Recorder(1), Applier(r)>>}

InitHandlers ==
  \E p \in ReplicaPlains : \E d \in {ManagedJson_create(p.h, p.v, NewEmitter(<< >>))} :
    \E r1 \in {Replica_create(d.h, d.view, NewEmitter(<<<< >>>>))} :
      \E hs \in HandlerLists(r1.view) :
        /\ d.err = "" /\ r1.err = ""
        /\ heap = r1.h
        /\ doc = d.view
        /\ reps = <<r1.view>>
        /\ views = {}
        /\ subs = <<hs, <<Recorder(2)>>>>
        /\ seen = <<<< >>, << >>>>
        /\ last = Call("Replica.create", r1.view, "", "", Replica_lsn(r1.h, r1.view),
                       {}, {}, {})
        /\ writes = 0
        /\ applies = 0
        /\ hist = <<ManagedJson_detach(r1.h, d.view).flat>>

\* Writes through views of D, eventEmitter(D).off('change', h) for the
\* handlers h that do not record, and Replica.apply(R, e) called by the
\* client with an event it has recorded.
NextHandlers ==
  \/ \E v \in {doc} \cup views, k \in UserKeys : Get(v, k)
  \/ \E v \in {doc} \cup views, k \in UserKeys, p \in SetPlains : Set(v, k, p)
  \/ \E v \in {doc} \cup views, k \in UserKeys : Delete(v, k)
  \/ /\ \E i \in 1..Len(subs[doc.em]) : subs[doc.em][i].kind \in {"throw", "mutate"}
     /\ subs' = [subs EXCEPT
                   ![doc.em] = SelectSeq(@, LAMBDA h : h.kind \notin {"throw", "mutate"})]
     /\ last' = Call("off", doc, "", "", Undefined, {}, {}, {})
     /\ UNCHANGED <<heap, doc, reps, views, seen, writes, applies, hist>>
  \/ \E j \in 1..Len(seen[1]) : Apply(1, seen[1][j])

SpecHandlers == InitHandlers /\ [][NextHandlers]_vars

\* With the same handlers: writes through the root views of D and of the
\* replica, writes the set trap refuses, and calls that only read.
NextCount ==
  \/ \E v \in Held, k \in UserKeys, p \in SetPlains : Set(v, k, p)
  \/ \E v \in Held, k \in UserKeys : Delete(v, k)
  \/ SetAs("setSymbol", doc, Sym, PVal(Num(2)))
  \/ SetAs("setBad", doc, Str("a"), PVal(Fn))
  \/ \E op \in {"detach", "detachPreserveVersionData", "getSnapshot", "versionCount"} :
       Read(doc, op)
  \/ RestoreVersion(doc, 0)

SpecCount == InitHandlers /\ [][NextCount]_vars

(***************************************************************************)
(* Array.prototype methods called on a view of an array.  The methods are  *)
(* the engine's; each reads and writes the array through the traps of the  *)
(* view, one property at a time: a step is a call of the set trap          *)
(* ("set"), of the deleteProperty trap ("del"), or one that reads first:   *)
(* "move" (if `from` is in the array, set `to` to its value, else delete   *)
(* `to`) and "swap" (the exchange reverse makes of a lower and an upper    *)
(* index).                                                                 *)
(***************************************************************************)
\* The elements of the array in sort order: the holes are left out, and
\* undefined comes after every number.
SortedValues(h, id) ==
  CHOOSE s \in [1..Cardinality({k \in DOMAIN h[id].f : IsIndex(k)})
                  -> {h[id].f[k] : k \in {y \in DOMAIN h[id].f : IsIndex(y)}}] :
    /\ \A a, b \in DOMAIN s :
         a < b => (IF s[a] = Undefined THEN 10 ELSE s[a].n)
                    <= (IF s[b] = Undefined THEN 10 ELSE s[b].n)
    /\ \A k \in {y \in DOMAIN h[id].f : IsIndex(y)} :
         Cardinality({a \in DOMAIN s : s[a] = h[id].f[k]})
           = Cardinality({y \in DOMAIN h[id].f : IsIndex(y) /\ h[id].f[y] = h[id].f[k]})

\* The steps of a method on an array of length len: i is the start index
\* (fill, splice), d the delete count and c the number of items (splice),
\* x the item.
ArraySteps(h, id, op, len, i, d, c, x) ==
  LET set(k, v) == [op |-> "set", from |-> "", to |-> k, v |-> v]
      del(k) == [op |-> "del", from |-> "", to |-> k, v |-> Undefined]
      move(f, t) == [op |-> "move", from |-> ToStr(f), to |-> ToStr(t), v |-> Undefined]
      length(n) == [op |-> "set", from |-> "", to |-> "length", v |-> Num(n)]
  IN CASE op = "push" -> <<set(ToStr(len), x), length(len + 1)>>
       [] op = "pop" ->
            IF len = 0 THEN <<length(0)>> ELSE <<del(ToStr(len - 1)), length(len - 1)>>
       [] op = "shift" ->
            IF len = 0 THEN <<length(0)>>
            ELSE [k \in 1..(len - 1) |-> move(k, k - 1)] \o <<del(ToStr(len - 1)), length(len - 1)>>
       [] op = "unshift" ->
            [j \in 1..len |-> move(len - j, len - j + 1)] \o <<set("0", x), length(len + 1)>>
       [] op = "fill" -> [j \in 1..(len - i) |-> set(ToStr(i + j - 1), x)]
       [] op = "reverse" ->
            [j \in 1..(len \div 2) |->
               [op |-> "swap", from |-> ToStr(j - 1), to |-> ToStr(len - j), v |-> Undefined]]
       [] op = "sort" ->
            [j \in 1..Len(SortedValues(h, id)) |-> set(ToStr(j - 1), SortedValues(h, id)[j])]
              \o [j \in 1..(len - Len(SortedValues(h, id))) |->
                    del(ToStr(Len(SortedValues(h, id)) + j - 1))]
       [] op = "splice" ->
            (IF c < d
               THEN [j \in 1..(len - d - i) |-> move(i + j - 1 + d, i + j - 1 + c)]
                      \o [j \in 1..(d - c) |-> del(ToStr(len - j))]
             ELSE IF c > d
               THEN [j \in 1..(len - d - i) |-> move(len - j, len - d - j + c)]
             ELSE << >>)
              \o [j \in 1..c |-> set(ToStr(i + j - 1), x)]
              \o <<length(len - d + c)>>
       [] OTHER -> <<set(ToStr(len + 1), x)>>

\* The trap calls a reading step makes in heap h.
Expand(h, id, s) ==
  IF s.op = "move" THEN
    IF HasProp(h, id, s.from)
    THEN <<[op |-> "set", from |-> "", to |-> s.to, v |-> GetProp(h, id, s.from)]>>
    ELSE <<[op |-> "del", from |-> "", to |-> s.to, v |-> Undefined]>>
  ELSE IF HasProp(h, id, s.from) /\ HasProp(h, id, s.to) THEN
    <<[op |-> "set", from |-> "", to |-> s.from, v |-> GetProp(h, id, s.to)],
      [op |-> "set", from |-> "", to |-> s.to, v |-> GetProp(h, id, s.from)]>>
  ELSE IF HasProp(h, id, s.to) THEN
    <<[op |-> "set", from |-> "", to |-> s.from, v |-> GetProp(h, id, s.to)],
      [op |-> "del", from |-> "", to |-> s.to, v |-> Undefined]>>
  ELSE IF HasProp(h, id, s.from) THEN
    <<[op |-> "del", from |-> "", to |-> s.from, v |-> Undefined],
      [op |-> "set", from |-> "", to |-> s.to, v |-> GetProp(h, id, s.from)]>>
  ELSE << >>

\* The world w after a trap call that took it to w2: the history of D has
\* one more value if the log has grown.
Traced(w, w2) == [w2 EXCEPT !.hist = HistAfter(w.hist, w.h, w2.h)]

\* The steps run in order; the first trap call that throws ends the method.
RECURSIVE RunSteps(_, _, _, _)
RunSteps(w, subscribers, view, steps) ==
  IF steps = << >> \/ w.err # "" THEN w
  ELSE IF Head(steps).op \in {"move", "swap"}
    THEN RunSteps(w, subscribers, view, Expand(w.h, view.tgt, Head(steps)) \o Tail(steps))
  ELSE IF Head(steps).op = "set"
    THEN RunSteps(Traced(w, Proxy_set(w, subscribers, view, Str(Head(steps).to), Head(steps).v)),
                  subscribers, view, Tail(steps))
  ELSE RunSteps(Traced(w, Proxy_deleteProperty(w, subscribers, view, Str(Head(steps).to))),
                subscribers, view, Tail(steps))

\* v.push(x), v.pop(), v.shift(), v.unshift(x), v.fill(x, i), v.reverse(),
\* v.sort(), v.splice(i, d) and v.splice(i, d, x), v[v.length + 1] = x
\* ("past") on a view v of an array.
ArrayOp(v, op, i, d, c, x) ==
  /\ writes < MaxWrites
  /\ IsArray(heap, Ref(v.tgt))
  /\ i <= heap[v.tgt].len
  /\ d <= heap[v.tgt].len - i
  /\ \E w \in {RunSteps(World, subs, v,
                        ArraySteps(heap, v.tgt, op, heap[v.tgt].len, i, d, c, x))} :
       AfterCall(w, heap, Call(op, v, "", w.err, Undefined, {}, {}, {}), w.hist)

\* D = create({a: [...]}) with a handler on its emitter; the client holds
\* the view D.a.
InitArray ==
  \E p \in {PNest("a", MkArr(f, 3)) :
              f \in {[x \in {"0", "1", "2"} |-> Num(ToIdx(x))],
                     [x \in {"0", "1", "2"} |-> Num((ToIdx(x) + 2) % 3)],
                     [x \in {"0", "2"} |-> Num(2 - ToIdx(x))]}}
             \cup {PNest("a", MkArr(EmptyF, 0))} :
   \E r \in {ManagedJson_create(p.h, p.v, NewEmitter(<< >>))} :
    /\ r.err = ""
    /\ heap = r.h
    /\ doc = r.view
    /\ reps = << >>
    /\ views = {Proxy_get(r.h, r.view, Str("a")).view}
    /\ subs = <<<<Recorder(1)>>>>
    /\ seen = <<<< >>>>
    /\ last = CreateCall("create", FlatP(p), r)
    /\ writes = 0
    /\ applies = 0
    /\ hist = <<ManagedJson_detach(r.h, r.view).flat>>

NextArray ==
  \/ \E v \in views, op \in {"push", "unshift", "past"}, x \in {Num(0), Num(4)} :
       ArrayOp(v, op, 0, 0, 0, x)
  \/ \E v \in views, op \in {"pop", "shift", "reverse", "sort"} :
       ArrayOp(v, op, 0, 0, 0, Undefined)
  \/ \E v \in views, i \in 0..2 : ArrayOp(v, "fill", i, 0, 0, Num(4))
  \/ \E v \in views, i \in 0..2, d \in 0..2, c \in 0..1 : ArrayOp(v, "splice", i, d, c, Num(4))

SpecArray == InitArray /\ [][NextArray]_vars

(***************************************************************************)
(* The document D and a replica R = Replica.create(D); the first handler   *)
(* on D's emitter writes D.z when it is notified of a write to another     *)
(* key, the handlers after it record the events and pass them to           *)
(* Replica.apply(R, event).                                                *)
(***************************************************************************)
InitReentrant ==
  \E p \in ReplicaPlains : \E d \in {ManagedJson_create(p.h, p.v, NewEmitter(<< >>))} :
    \E r1 \in {Replica_create(d.h, d.view, NewEmitter(<<<< >>>>))} :
      \E hs \in {<<Recorder(1)>>, <<Recorder(1), Applier(r1.view)>>,
                  <<Applier(r1.view), Recorder(1)>>} :
        /\ d.err = "" /\ r1.err = ""
        /\ heap = r1.h
        /\ doc = d.view
        /\ reps = <<r1.view>>
        /\ views = {}
        /\ subs = <<<<[Handler("write", "z") EXCEPT !.r = d.view]>> \o hs, <<Recorder(2)>>>>
        /\ seen = <<<< >>, << >>>>
        /\ last = Call("Replica.create", r1.view, "", "", Replica_lsn(r1.h, r1.view),
                       {}, {}, {})
        /\ writes = 0
        /\ applies = 0
        /\ hist = <<ManagedJson_detach(r1.h, d.view).flat>>

NextReentrant ==
  \/ \E k \in UserKeys \cup {"z"}, p \in SetPlains : Set(doc, k, p)
  \/ \E k \in UserKeys \cup {"z"} : Delete(doc, k)

SpecReentrant == InitReentrant /\ [][NextReentrant]_vars

(***************************************************************************)
(* The values the client holds outside the document: the value it passed   *)
(* to create (address 1), the value it passed to the last set and the      *)
(* value the last call returned.  The client writes to them directly.      *)
(***************************************************************************)
\* o.z = x for the object o at address id, not through a view.
MutateValue(id, x) ==
  /\ writes < MaxWrites
  /\ heap' = ReflectSet(heap, id, "z", x).h
  /\ writes' = writes + 1
  /\ last' = Call("mutateValue", NoView, "z", "", Ref(id), {}, {}, {})
  /\ UNCHANGED <<doc, reps, views, subs, seen, applies, hist>>

\* x = detach(v), detachPreserveVersionData(v), getSnapshot(v) or
\* restoreVersion(v, k): the client keeps the value returned.
Take(v, op, k) ==
  /\ writes < MaxWrites
  /\ ManagedJson_getSnapshot(heap, v).err = ""
  /\ ManagedJson_restoreVersion(heap, v, k).err = ""
  /\ \E a \in {CASE op = "detach" -> Alloc(heap, ManagedJson_detach(heap, v).p)
                  [] op = "detachPreserveVersionData"
                       -> Alloc(heap, ManagedJson_detachPreserveVersionData(heap, v).p)
                  [] op = "getSnapshot"
                       -> Alloc(heap, [h |-> ManagedJson_getSnapshot(heap, v).h,
                                       v |-> ManagedJson_getSnapshot(heap, v).v])
                  [] OTHER -> [h |-> ManagedJson_restoreVersion(heap, v, k).h,
                               v |-> ManagedJson_restoreVersion(heap, v, k).v]} :
       /\ heap' = a.h
       /\ last' = Call(op, v, "", "", a.v, {}, {}, {})
  /\ writes' = writes + 1
  /\ UNCHANGED <<doc, reps, views, subs, seen, applies, hist>>

NextAlias ==
  \/ \E k \in UserKeys, p \in SetPlains \cup {PNest("a", MkObj(EmptyF))} :
       SetAs("set", doc, Str(k), p)
  \/ \E id \in ReachFrom(heap, {1} \cup (IF IsRef(last.n) THEN {last.n.n} ELSE {}), {}),
        x \in {Num(9), Fn} : MutateValue(id, x)
  \/ \E op \in {"detach", "detachPreserveVersionData", "getSnapshot"} : Take(doc, op, 0)
  \/ \E k \in 0..MaxWrites : Take(doc, "restoreVersion", k)

SpecAlias == Init /\ [][NextAlias]_vars
(***************************************************************************)
(* Writes and deletes through the root view and through nested views, the  *)
(* value the caller passed being recorded with each write.                 *)
(***************************************************************************)
NestPlains == SetPlains \cup {PNest("a", MkObj(EmptyF))}

\* delete v[property], recorded as the operation op.
DeleteAs(op, v, property) ==
  /\ writes < MaxWrites
  /\ \E w \in {Proxy_deleteProperty(World, subs, v, property)} :
       AfterCall(w, heap, Call(op, v, KeyOf(property), w.err, Undefined, {}, {}, {}),
                 HistAfter(hist, heap, w.h))

NextNested ==
  \/ \E v \in {doc} \cup views, k \in UserKeys : Get(v, k)
  \/ \E v \in {doc} \cup views, k \in UserKeys, p \in NestPlains : SetAs("set", v, Str(k), p)
  \/ \E v \in {doc} \cup views, k \in UserKeys : Delete(v, k)
  \/ \E v \in {doc} \cup views : SetAs("setSymbol", v, Sym, PVal(Num(2)))
  \/ \E v \in {doc} \cup views : DeleteAs("deleteSymbol", v, Sym)

SpecNested == Init /\ [][NextNested]_vars

(***************************************************************************)
(* isAssignable and isManageable on values built from scalars by wrapping: *)
(* last.n is the value, last.a and last.b what the two functions return    *)
(* for it.                                                                 *)
(***************************************************************************)
MaxDepth == 2

Scalars == {Undefined, Null, Bool(TRUE), Bool(FALSE), Num(0), Num(2), NaN, Str(""), Str("x"),
            Fn, Sym}

Classified(op, h, v) ==
  [Call(op, NoView, "", "", v, {}, {}, {})
     EXCEPT !.a = isAssignable(h, v), !.b = isManageable(h, v)]

InitClassify ==
  /\ \E p \in {PVal(v) : v \in Scalars}
           \cup {PEmpty, [h |-> <<MkArr(EmptyF, 0)>>, v |-> Ref(1)],
                 [h |-> <<MkInst(EmptyF)>>, v |-> Ref(1)]} :
       /\ heap = p.h
       /\ last = Classified("value", p.h, p.v)
  /\ doc = NoView
  /\ reps = << >>
  /\ views = {}
  /\ subs = << >>
  /\ seen = << >>
  /\ writes = 0
  /\ applies = 0
  /\ hist = << >>

\* {k: v}, [v] or an instance of a class holding v, v being the value so far.
Wrap(op, o) ==
  /\ Len(heap) < MaxDepth
  /\ heap' = Append(heap, o)
  /\ last' = Classified(op, Append(heap, o), Ref(Len(heap) + 1))
  /\ UNCHANGED <<doc, reps, views, subs, seen, writes, applies, hist>>

NextClassify ==
  \/ \E k \in {"a", SymbolKey} : Wrap("object", MkObj([x \in {k} |-> last.n]))
  \/ Wrap("array", MkArr([x \in {"0"} |-> last.n], 1))
  \/ Wrap("instance", MkInst([x \in {"a"} |-> last.n]))

SpecClassify == InitClassify /\ [][NextClassify]_vars

(***************************************************************************)
(* LogEntry.apply(tree, entry) on trees and entries of the client's own    *)
(* making: last.n is the tree, last.a the entry, last.b the structure of   *)
(* the tree before the call and last.err what the call threw.              *)
(***************************************************************************)
\* The object literal with the keys `keys` of {op, path: [...], value}.
EntryPlain(keys, op, path, value) ==
  [h |-> <<MkObj([k \in keys |->
                    CASE k = "op" -> op [] k = "path" -> Ref(2) [] OTHER -> value]),
           ArrayOf(path), MkObj(EmptyF)>>,
   v |-> Ref(1)]

\* {op, path: 'a', value}: the path is no sequence.
EntryWithoutSequence(op, value) ==
  [h |-> <<MkObj([k \in {"op", "path", "value"} |->
                    CASE k = "op" -> op [] k = "path" -> Str("a") [] OTHER -> value]),
           MkObj(EmptyF), MkObj(EmptyF)>>,
   v |-> Ref(1)]

ApplyTrees ==
  {PVal(Null), PVal(Undefined), PEmpty, PObj("a", Num(1)), PObj("a", Num(0)),
   PNest("a", MkObj([x \in {"b"} |-> Num(1)])), PNest("a", MkArr([x \in {"0"} |-> Num(0)], 1))}

ApplyPaths ==
  {<< >>, <<Str("a")>>, <<Str("b")>>, <<Str("a"), Str("b")>>, <<Str("a"), Str("0")>>,
   <<Num(0)>>, <<Str("a"), Num(0)>>, <<Sym>>}

ApplyEntries ==
  {EntryPlain({"op", "path", "value"}, op, path, value) :
     op \in {SET, DELETE, Str("move")}, path \in ApplyPaths, value \in {Num(1), Null, Ref(3)}}
  \cup {EntryWithoutSequence(op, value) : op \in {SET, DELETE}, value \in {Num(1), Ref(3)}}
  \cup {EntryPlain(keys, SET, <<Str("a")>>, Num(1)) :
          keys \in {{"path", "value"}, {"op", "value"}, {"op", "path"}}}
  \cup {PVal(Null)}

InitApply ==
  /\ \E t \in ApplyTrees, e \in ApplyEntries :
       \E a \in {Alloc(<< >>, t)} : \E b \in {Alloc(a.h, e)} :
         /\ heap = b.h
         /\ last = [Call("entry", NoView, "", "", a.v, {}, {}, {}) EXCEPT !.a = b.v]
  /\ doc = NoView
  /\ reps = << >>
  /\ views = {}
  /\ subs = << >>
  /\ seen = << >>
  /\ writes = 0
  /\ applies = 0
  /\ hist = << >>

\* LogEntry.apply(tree, entry)
LogApply ==
  /\ last.op = "entry"
  /\ \E r \in {LogEntry_apply(heap, last.n, last.a)} :
       /\ heap' = r.h
       /\ last' = [last EXCEPT !.op = "apply", !.err = r.err, !.b = Flat(heap, last.n)]
  /\ UNCHANGED <<doc, reps, views, subs, seen, writes, applies, hist>>

NextApply == LogApply

SpecApply == InitApply /\ [][NextApply]_vars

(***************************************************************************)
(* Two documents: D and a document E made from D's detached value with its *)
(* versioning data, or from the plain value D was made from.  Each has an  *)
(* observer on its own emitter; the client writes to both, also the same   *)
(* object of its own to both.                                              *)
(***************************************************************************)
\* E = ManagedJson.create(x), x being ManagedJson.detachPreserveVersionData(D)
\* ("reattach") or the plain value D was created from ("sibling"); E is kept
\* and an observer is registered on its emitter.
MakeOwner(op, a) ==
  /\ reps = << >>
  /\ \E m \in {ManagedJson_create(a.h, a.v, NewEmitter(subs))} :
       /\ m.err = ""
       /\ heap' = m.h
       /\ reps' = Append(reps, m.view)
       /\ subs' = Append(subs, <<Recorder(NewEmitter(subs))>>)
       /\ seen' = Append(seen, << >>)
       /\ last' = Call(op, m.view, "", "", ManagedJson_versionCount(m.h, m.view).v, {}, {}, {})
       /\ UNCHANGED <<doc, views, writes, applies, hist>>

\* v[k] = x, x being the object the client passed to the write before, made
\* to another document.  It follows a counted write and is not counted again.
SetSame(v, k) ==
  /\ last.op = "set" /\ last.err = "" /\ IsRef(last.n)
  /\ last.root # v.root
  /\ \E w \in {Proxy_set(World, subs, v, Str(k), last.n)} :
       /\ heap' = w.h
       /\ seen' = w.seen
       /\ last' = Call("setSame", v, k, w.err, last.n, {}, {}, {})
       /\ hist' = HistAfter(hist, heap, w.h)
       /\ UNCHANGED <<doc, reps, views, subs, writes, applies>>

NextOwners ==
  \/ \E d \in {ManagedJson_detachPreserveVersionData(heap, doc)} :
       d.err = "" /\ MakeOwner("reattach", Alloc(heap, d.p))
  \/ MakeOwner("sibling", [h |-> heap, v |-> Ref(1)])
  \/ \E v \in Held, k \in UserKeys, p \in SetPlains : SetAs("set", v, Str(k), p)
  \/ \E v \in Held, k \in UserKeys : SetSame(v, k)
  \/ \E v \in Held, k \in UserKeys : Get(v, k)
  \/ \E v \in Held, k \in UserKeys : Delete(v, k)

SpecOwners == Init /\ [][NextOwners]_vars


(***************************************************************************)
(* Properties                                                              *)
(***************************************************************************)
\* The structure at the key path kp inside the structure flat.
Below(flat, kp) ==
  {e \in flat : Len(e[1]) >= Len(kp) /\ SubSeq(e[1], 1, Len(kp)) = kp}
SubFlat(flat, kp) == {<<SubSeq(e[1], Len(kp) + 1, Len(e[1])), e[2]>> : e \in Below(flat, kp)}
Resolves(flat, kp) == Below(flat, kp) # {}
KeyPath(path) == [i \in 1..Len(path) |-> KeyOf(path[i])]
HasRootKey(flat, k) == \E e \in flat : e[1] = <<k>>

\* The structure of the log create installs for a value of structure b:
\* [{op: "set", path: [], value: b}].
FirstLog(b) ==
  (Flat(<<MkArr([k \in {"0"} |-> Ref(2)], 1), EntryOf(SET, Ref(3), Undefined),
          MkArr(EmptyF, 0)>>, Ref(1)) \ {<<<<"0", "value">>, Undefined>>})
    \cup {<<<<"0", "value">> \o e[1], e[2]>> : e \in b}

\* D's log replayed: log[1..last] applied to a deep copy of log[0].value.
Replayed == ManagedJson_restoreVersion(heap, doc, LogLen(heap, doc.root) - 1)

\* C1: after any sequence of SET and DELETE operations through views of D
\* (the root view, nested views, nested views obtained before their
\* ancestors were changed), replaying log[1..last] onto a deep copy of
\* log[0].value succeeds and yields a value structurally equal to detach(D).
C1_ReplayInvariant ==
  /\ Replayed.err = ""
  /\ Replayed.flat = ManagedJson_detach(heap, doc).flat

\* C2: for every k below versionCount(D), restoreVersion(root view, k)
\* returns the value detach(D) had when the log held exactly k + 1 entries,
\* whatever was done afterwards; for a nested view whose path resolves in
\* version k it returns the subtree at that path in version k.
C2_HistoryStable ==
  (/\ last.op = "restoreVersion"
   /\ last.root = doc.root
   /\ last.n.n < LogLen(heap, doc.root)
   /\ last.n.n < Len(hist))
  => /\ last.err = ""
     /\ last.path = << >> => last.a = hist[last.n.n + 1]
     /\ (last.path # << >> /\ Resolves(hist[last.n.n + 1], KeyPath(last.path)))
          => last.a = SubFlat(hist[last.n.n + 1], KeyPath(last.path))

\* C3: for D reached by any sequence of view operations,
\* E = create(detachPreserveVersionData(D)) succeeds, detach(E) is
\* structurally equal to detach(D), versionCount(E) = versionCount(D) and
\* the logs are identical.
C3_ReattachRoundTrip ==
  last.op = "reattach"
  => /\ last.err = ""
     /\ last.a = ManagedJson_detach(heap, doc).flat
     /\ last.n = ManagedJson_versionCount(heap, doc).v
     /\ last.c = LogFlat(heap, doc.root)

\* What C4 says of the call create(p) that `last` records.
CreatedFresh ==
  /\ last.err = ""
  /\ last.n = Num(1)
  /\ last.c = FirstLog(last.b)
  /\ last.a = last.b

\* C4, as stated: for every manageable plain value p, create(p) yields a
\* document with versionCount 1 whose log[0] is {SET, [], copy of p}, and
\* detach(create(p)) is structurally equal to p.  (Every value the model
\* passes to create is a manageable mapping.)
C4_CreateAnyManageable == last.op = "create" => CreatedFresh

\* C4, amended: for every manageable plain value p that has no key
\* __versioning__ at its root, create(p) yields a document with
\* versionCount 1 whose log[0] is {SET, [], copy of p}, and
\* detach(create(p)) is structurally equal to p.
C4_CreateWithoutReservedKey ==
  (last.op = "create" /\ ~HasRootKey(last.b, VERSIONING_DATA_PROP)) => CreatedFresh

C4_Witness ==
  /\ last.op = "create"
  /\ ~HasRootKey(last.b, VERSIONING_DATA_PROP)
  /\ HasRootKey(last.b, "a") /\ HasRootKey(last.b, "b")
  /\ last.err = ""

\* C5: a subscriber of D's emitter observes the change events in strict,
\* contiguous LSN order: each event's lsn is the index of the log entry
\* just appended, the first event after create has lsn 1, and each
\* following event has lsn one greater than the one before.
C5_ContiguousLsn ==
  [][Len(seen'[1]) > Len(seen[1])
     => /\ Len(seen'[1]) = Len(seen[1]) + 1
        /\ seen'[1][Len(seen'[1])].lsn = LogLen(heap', doc.root) - 1
        /\ seen'[1][Len(seen'[1])].lsn =
             IF Len(seen[1]) = 0 THEN 1 ELSE seen[1][Len(seen[1])].lsn + 1]_vars

\* The lsn of the event D's emitter delivered last.
LastLsn == seen[1][Len(seen[1])].lsn

\* C6: for the replica R1 created from D and subscribed so that every
\* change event of D is passed to Replica.apply(R1, event): after the event
\* with lsn n has been delivered, R1's lsn is n and Replica.detach(R1) is
\* structurally equal to restoreVersion(D, n) and to detach(D).
C6_ReplicaConsistency ==
  Len(seen[1]) > 0
  => /\ Replica_lsn(heap, reps[1]) = Num(LastLsn)
     /\ ManagedJson_restoreVersion(heap, doc, LastLsn).err = ""
     /\ Replica_detach(heap, reps[1]) = ManagedJson_restoreVersion(heap, doc, LastLsn).flat
     /\ Replica_detach(heap, reps[1]) = ManagedJson_detach(heap, doc).flat

\* The tree of the i-th replica, its lsn included.
ReplicaTree(h, i) == Flat(h, Ref(reps[i].root))

\* C7: Replica.apply(R, event) with event.lsn different from R's lsn + 1
\* fails with OutOfSync, leaves R's lsn and tree unchanged, and no event is
\* re-emitted on R's emitter.
C7_OutOfSync ==
  [][\A i \in 1..Len(reps) :
       (/\ last'.op = "apply"
        /\ last'.root = reps[i].root
        /\ PlusOne(Replica_lsn(heap, reps[i])) # last'.n)
       => /\ last'.err = "OutOfSync"
          /\ ReplicaTree(heap', i) = ReplicaTree(heap, i)
          /\ seen'[reps[i].em] = seen[reps[i].em]]_vars

C7_Witness ==
  /\ last.op = "apply"
  /\ last.err = "OutOfSync"
  /\ \E i \in 1..Len(reps) : last.root = reps[i].root /\ Replica_lsn(heap, reps[i]) = Num(1)

\* The replicas that a handler on D's emitter passes D's events to.
Linked(i) == \E j \in 1..Len(subs[doc.em]) : subs[doc.em][j] = Applier(reps[i])

\* C8: every SET or DELETE through a replica's root view or a nested view
\* of it (push on a nested array included) fails with ReadOnlyViolation and
\* leaves the replica's tree and lsn unchanged; a replica changes only by
\* Replica.apply, called by the client or by the handler that links it to D.
C8_ReplicaReadOnly ==
  [][\A i \in 1..Len(reps) :
       /\ (last'.op \in {"set", "delete", "push"} /\ last'.root = reps[i].root)
          => /\ last'.err = "ReadOnlyViolation"
             /\ ReplicaTree(heap', i) = ReplicaTree(heap, i)
       /\ ReplicaTree(heap', i) # ReplicaTree(heap, i)
          => \/ last'.op = "apply" /\ last'.root = reps[i].root
             \/ /\ Linked(i)
                /\ last'.op \in {"set", "delete", "push"}
                /\ last'.root = doc.root]_vars

C8_Witness ==
  /\ last.op = "push"
  /\ last.root = reps[1].root
  /\ last.path # << >>
  /\ last.err = "ReadOnlyViolation"

\* The target of the write that `c` records is the root key __versioning__
\* or a key below it.
InBlock(c) ==
  \/ c.path = << >> /\ c.key = VERSIONING_DATA_PROP
  \/ c.path # << >> /\ c.path[1] = Str(VERSIONING_DATA_PROP)

\* C9: every SET or DELETE through a view of D whose target is the root key
\* __versioning__ or any key below it fails, and afterwards the log is
\* identical to what it was before.
C9_BlockUnchangeable ==
  [][(last'.op \in {"set", "delete"} /\ last'.root = doc.root /\ InBlock(last'))
     => /\ last'.err # ""
        /\ LogFlat(heap', doc.root) = LogFlat(heap, doc.root)]_vars

\* C10: a mutation attempted on the value getLog(v) returned fails and
\* leaves D's log and versionCount unchanged.
C10_GetLogReadOnly ==
  [][last'.op = "getLog"
     => /\ last'.err # ""
        /\ LogFlat(heap', doc.root) = LogFlat(heap, doc.root)
        /\ ManagedJson_versionCount(heap', doc) = ManagedJson_versionCount(heap, doc)]_vars

\* C11: in the chain D -> R1 -> R2, after every mutation of D both replicas
\* have advanced with it: each has the lsn of D's last log entry, each is
\* structurally equal to detach(D), and the events re-emitted on R1's and
\* on R2's emitter are the very events D's emitter delivered, in order.
C11_ChainConsistency ==
  /\ Replica_lsn(heap, reps[1]) = Num(LogLen(heap, doc.root) - 1)
  /\ Replica_lsn(heap, reps[2]) = Num(LogLen(heap, doc.root) - 1)
  /\ Replica_detach(heap, reps[1]) = ManagedJson_detach(heap, doc).flat
  /\ Replica_detach(heap, reps[2]) = ManagedJson_detach(heap, doc).flat
  /\ seen[reps[1].em] = seen[doc.em]
  /\ seen[reps[2].em] = seen[doc.em]

\* The roots of the trees that exist: the document's and the replicas'.
Roots == {doc.root} \cup {reps[i].root : i \in 1..Len(reps)}

\* C12: a replica made by Replica.create(x) has a tree of its own, equal to
\* x's tree, and x's lsn (for a document, the index of its last log entry);
\* it is not linked to x: its tree and lsn change only when Replica.apply
\* is called on the replica itself, whatever happens to its source.
C12_CreatedUnlinked ==
  [][/\ (last'.op = "Replica.create" /\ last'.err = "")
        => /\ reps'[Len(reps')].root \notin Roots
           /\ last'.root = doc.root
                => /\ last'.a = ManagedJson_detach(heap, doc).flat
                   /\ last'.n = Num(LogLen(heap, doc.root) - 1)
           /\ \A i \in 1..Len(reps) :
                last'.root = reps[i].root
                  => /\ last'.a = Replica_detach(heap, reps[i])
                     /\ last'.n = Replica_lsn(heap, reps[i])
     /\ \A i \in 1..Len(reps) :
          ReplicaTree(heap', i) # ReplicaTree(heap, i)
            => last'.op = "apply" /\ last'.root = reps[i].root /\ last'.err = ""]_vars

\* The first replica has applied an event after the second was made: the
\* second one's source (the document or the first replica) has moved on.
C12_Witness ==
  /\ Len(reps) = 2
  /\ last.op = "apply" /\ last.err = "" /\ last.root = reps[1].root
  /\ Replica_lsn(heap, reps[1]).n > Replica_lsn(heap, reps[2]).n
  /\ Replica_detach(heap, reps[1]) # Replica_detach(heap, reps[2])

\* C13: a SET whose value is itself a managed view (the root view of
\* another document, or a nested view of the same document) fails, and the
\* target document's tree, log and versionCount are unchanged.
C13_NoCrossAttachment ==
  [][(last'.op \in {"setView", "setOther"} /\ last'.root = doc.root)
     => /\ last'.err # ""
        /\ ManagedJson_detach(heap', doc) = ManagedJson_detach(heap, doc)
        /\ LogFlat(heap', doc.root) = LogFlat(heap, doc.root)
        /\ ManagedJson_versionCount(heap', doc) = ManagedJson_versionCount(heap, doc)]_vars

\* C14: a SET through a nested view whose path no longer resolves in the
\* document, because a key on the path was deleted after the view was
\* obtained, fails, appends no log entry and emits no event.
C14_OrphanedWriteFails ==
  [][(/\ last'.op = "set"
      /\ last'.root = doc.root
      /\ last'.path # << >>
      /\ nav(heap, Ref(doc.root), last'.path, 1) = Undefined)
     => /\ last'.err # ""
        /\ LogFlat(heap', doc.root) = LogFlat(heap, doc.root)
        /\ seen' = seen]_vars

\* C15: a SET through a writable view with a key that is not a string, or
\* with a value that is not assignable, fails; nothing in the heap changes
\* (the tree and the log are as before, the slot is not created) and no
\* change event is emitted.
C15_RejectedWrite ==
  [][(last'.op \in {"setSymbol", "setBad"} /\ ~last'.ro)
     => /\ last'.err = (IF last'.op = "setSymbol" THEN "InvalidKey" ELSE "NonAssignableValue")
        /\ heap' = heap
        /\ ManagedJson_detach(heap', doc) = ManagedJson_detach(heap, doc)
        /\ LogFlat(heap', doc.root) = LogFlat(heap, doc.root)
        /\ seen' = seen]_vars

C15_Witness ==
  /\ last.op = "setBad"
  /\ last.err = "NonAssignableValue"
  /\ last.path # << >>
  /\ writes > 0

\* C16: create fails for every input that is not a manageable root (null,
\* undefined, a scalar, a function, a symbol, a class instance, a sequence,
\* a mapping with a non-assignable descendant) and for a view.
C16_CreateRejectsNonRoots ==
  [][last'.op \in {"createRoot", "createView"} => last'.err # ""]_vars

\* The log a plain value carries in its versioning block, and that log
\* replayed: log[1..] applied to a copy of log[0].value gives the value
\* without its versioning block.
LogOf(p) == Prop(p.h, Prop(p.h, p.v, VERSIONING_DATA_PROP).v, LOG_PROP).v
HasLog(p) == ~IsNil(Prop(p.h, p.v, VERSIONING_DATA_PROP).v) /\ ~IsNil(LogOf(p))
ReplaysToTree(p) ==
  \E a \in {CloneDeep(p.h, Prop(p.h, GetProp(p.h, LogOf(p).n, "0"), "value").v, p.h)} :
    \E r \in {ApplyAll(a.h, a.v, LogOf(p).n, 1, p.h[LogOf(p).n].len - 1)} :
      r.err = "" /\ IsEqual(r.h, a.v, WithoutKey(p, VERSIONING_DATA_PROP))
ReattachInputs == {p \in CreatePlains : HasRootKey(FlatP(p), VERSIONING_DATA_PROP)}

\* C17: create on a value that carries a __versioning__ field fails with
\* InvalidVersioningData when the field has no log or when the replay of
\* log[1..] onto log[0].value differs from the value without the field; it
\* succeeds, keeping the whole log, exactly when the two are equal.
C17_ReattachValidation ==
  \A p \in ReattachInputs :
    (last.op = "create" /\ last.b = FlatP(p))
    => IF HasLog(p) /\ ReplaysToTree(p)
         THEN /\ last.err = ""
              /\ last.c = Flat(p.h, LogOf(p))
              /\ last.a = FlatP(WithoutKey(p, VERSIONING_DATA_PROP))
         ELSE last.err = "InvalidVersioningData"

\* C18: restoreVersion(v, k) fails with InvalidVersionId for every k < 0
\* and every k >= versionCount, and succeeds for every k in between;
\* neither outcome changes the document's tree or log.
C18_VersionIdRange ==
  [][last'.op = "restoreVersion"
     => /\ last'.err = (IF last'.n.n < 0 \/ last'.n.n >= LogLen(heap, doc.root)
                          THEN "InvalidVersionId" ELSE "")
        /\ ManagedJson_detach(heap', doc) = ManagedJson_detach(heap, doc)
        /\ LogFlat(heap', doc.root) = LogFlat(heap, doc.root)]_vars

\* The key path a write recorded in `call` is logged under, and the entry
\* the log holds at index n as a structure.
WrittenPath(call) == KeyPath(call.path) \o <<call.key>>
LogEntryAt(h, n) == SubFlat(LogFlat(h, doc.root), <<ToStr(n)>>)

C20_EventsImmutable ==
  [][\A i \in 1..Len(seen) :
       (last'.op \in {"set", "delete"} /\ Len(seen'[i]) > Len(seen[i]))
       => /\ seen'[i][Len(seen'[i])].lsn = LogLen(heap, doc.root)
          /\ Flat(heap', seen'[i][Len(seen'[i])].logEntry) = LogEntryAt(heap', LogLen(heap, doc.root))
          /\ \A e \in LogFlat(heap, doc.root) : e[1] # << >> => e \in LogFlat(heap', doc.root)]_vars

\* The errors with which the traps refuse a write before they change anything.
Rejections == {"ReadOnlyViolation", "InvalidKey", "NonAssignableValue"}
WriteOps == {"set", "delete", "setSymbol", "setBad"}

C22_SnapshotSeedsReplica ==
  [][(last'.op = "Replica.create" /\ last'.root = doc.root)
     => /\ ManagedJson_getSnapshot(heap, doc).err = ""
        /\ Flat(ManagedJson_getSnapshot(heap, doc).h, ManagedJson_getSnapshot(heap, doc).v)
             = ManagedJson_detach(heap, doc).flat
                 \cup {<<<<VERSIONING_DATA_PROP>>, [t |-> "object", s |-> "obj", n |-> 0]>>,
                       <<<<VERSIONING_DATA_PROP, LSN_PROP>>,
                         Num(ManagedJson_versionCount(heap, doc).v.n - 1)>>}
        /\ ~ManagedJson_isManaged([h |-> ManagedJson_getSnapshot(heap, doc).h,
                                   v |-> ManagedJson_getSnapshot(heap, doc).v])
        /\ last'.err = ""
        /\ ManagedJson_isManaged(reps'[Len(reps')])
        /\ Replica_isReplica(heap', reps'[Len(reps')])
        /\ last'.n = Num(ManagedJson_versionCount(heap, doc).v.n - 1)
        /\ last'.a = ManagedJson_detach(heap, doc).flat]_vars

\* A replica made of D after D was written to twice.
C22_Witness ==
  /\ last.op = "Replica.create"
  /\ last.root = doc.root
  /\ last.err = ""
  /\ last.n = Num(2)
  /\ Len(reps) = 2

\* C23: isManaged is true exactly for views: the root view, every nested
\* view read from it and every replica are managed; plain values, deep
\* copies of views and the outputs of detach, detachPreserveVersionData and
\* getSnapshot are not, even when they carry a __versioning__ field.
C23_ManagedExactlyViews ==
  /\ \A v \in Held \cup {ManagedJson_getRootObject(w) : w \in Held} :
       /\ ManagedJson_isManaged(v)
       /\ ~ManagedJson_isManaged(Plain(heap, Ref(v.tgt)))
       /\ ~ManagedJson_isManaged(ManagedJson_detach(heap, v).p)
       /\ ~ManagedJson_isManaged(ManagedJson_detachPreserveVersionData(heap, v).p)
       /\ ~ManagedJson_isManaged([h |-> ManagedJson_getSnapshot(heap, v).h,
                                  v |-> ManagedJson_getSnapshot(heap, v).v])
  /\ \A p \in InitPlains \cup CreatePlains \cup SetPlains : ~ManagedJson_isManaged(p)

\* A nested view is held, and the copy detachPreserveVersionData makes of
\* the document carries the versioning data with two log entries.
C23_Witness ==
  /\ views # {}
  /\ ManagedJson_detachPreserveVersionData(heap, doc).err = ""
  /\ HasProp(ManagedJson_detachPreserveVersionData(heap, doc).p.h,
             ManagedJson_detachPreserveVersionData(heap, doc).p.v.n, VERSIONING_DATA_PROP)
  /\ LogLen(heap, doc.root) = 3

\* C24: getRootObject(v) returns a view at path [] over the same tree and
\* the same emitter as the document of v; a write through a view at path []
\* of D that appends to D's log delivers one change event to the handlers
\* registered on D's emitter.
C24_RootObjectShared ==
  [][/\ (last'.op = "getRootObject" /\ last'.err = "" /\ last'.root = doc.root)
        => \A v \in views' \ views :
             v.path = << >> /\ v.root = doc.root /\ v.tgt = doc.root /\ v.em = doc.em
     /\ (/\ last'.op \in {"set", "delete"}
         /\ last'.path = << >>
         /\ last'.root = doc.root
         /\ LogLen(heap', doc.root) > LogLen(heap, doc.root))
        => /\ last'.err = ""
           /\ Len(seen'[1]) = Len(seen[1]) + 1
           /\ seen'[1][Len(seen'[1])].lsn = LogLen(heap, doc.root)]_vars

\* The operations the client makes on a view of an array.
ArrayOps == {"push", "pop", "shift", "unshift", "fill", "reverse", "sort", "splice", "past"}

\* C25: an operation on a nested array view (push, pop, shift, unshift,
\* fill, reverse, sort, splice, an index write past the end) is recorded
\* only as SET and DELETE log entries on single keys of that array, each
\* with its own lsn and its own change event, and restoreVersion of the
\* array view at the version reached after the operation equals the live
\* contents of the array.
C25_ArrayOpsAsSingleWrites ==
  [][(last'.op \in ArrayOps /\ last'.err = "")
     => /\ \A n \in LogLen(heap, doc.root)..(LogLen(heap', doc.root) - 1) :
             /\ SubFlat(LogEntryAt(heap', n), <<"op">>) \in {{<<<< >>, SET>>}, {<<<< >>, DELETE>>}}
             /\ \E k \in {IdxStr[j] : j \in 1..Len(IdxStr)} \cup {"length"} :
                  SubFlat(LogEntryAt(heap', n), <<"path">>)
                    = Flat(<<ArrayOf(last'.path \o <<Str(k)>>)>>, Ref(1))
             /\ seen'[1][Len(seen[1]) + 1 + n - LogLen(heap, doc.root)].lsn = n
             /\ Flat(heap', seen'[1][Len(seen[1]) + 1 + n - LogLen(heap, doc.root)].logEntry)
                  = LogEntryAt(heap', n)
        /\ Len(seen'[1]) - Len(seen[1]) = LogLen(heap', doc.root) - LogLen(heap, doc.root)
        /\ \A v \in views :
             /\ ManagedJson_restoreVersion(heap', v, LogLen(heap', doc.root) - 1).err = ""
             /\ ManagedJson_restoreVersion(heap', v, LogLen(heap', doc.root) - 1).flat
                  = Flat(heap', Ref(v.tgt))]_vars

\* The array [2, <hole>, 0] after reverse and then splice.
C25_Witness ==
  /\ last.op = "splice"
  /\ last.err = ""
  /\ LogLen(heap, doc.root) >= 6
  /\ \E v \in views : ~HasProp(heap, v.tgt, "1") /\ heap[v.tgt].len >= 2

\* C26: the log entry is appended before its event is emitted: when a change
\* handler is called with lsn n, the log holds entry n, equal to
\* event.logEntry, versionCount(D) is n + 1, and detach(D) equals
\* restoreVersion(D, n).
C26_AppendBeforeEvent ==
  \A j \in 1..Len(seen[1]) :
    "at" \in DOMAIN seen[1][j]
    => /\ LogLen(seen[1][j].at, doc.root) = seen[1][j].lsn + 1
       /\ SubFlat(LogFlat(seen[1][j].at, doc.root), <<ToStr(seen[1][j].lsn)>>)
            = Flat(seen[1][j].at, seen[1][j].logEntry)
       /\ ManagedJson_versionCount(seen[1][j].at, doc) = [err |-> "", v |-> Num(seen[1][j].lsn + 1)]
       /\ ManagedJson_restoreVersion(seen[1][j].at, doc, seen[1][j].lsn).err = ""
       /\ ManagedJson_detach(seen[1][j].at, doc).flat
            = ManagedJson_restoreVersion(seen[1][j].at, doc, seen[1][j].lsn).flat

\* C27: when a change handler writes to the document it is being notified
\* about (the outer write has lsn n, the handler's write lsn n + 1), a
\* handler registered after it receives the event with lsn n + 1 before the
\* event with lsn n, and a replica whose handler is registered after it
\* fails OutOfSync on the event it is passed and is left unchanged.
C27_ReentrantWriteReorders ==
  [][(/\ last'.op \in {"set", "delete"}
      /\ last'.key # "z"
      /\ LogLen(heap', doc.root) > LogLen(heap, doc.root))
     => /\ LogLen(heap', doc.root) = LogLen(heap, doc.root) + 2
        /\ Len(seen'[1]) > Len(seen[1])
           => seen'[1][Len(seen[1]) + 1].lsn = LogLen(heap, doc.root) + 1
        /\ (\A i \in 1..Len(subs[doc.em]) : subs[doc.em][i].kind # "apply")
           => /\ last'.err = ""
              /\ Len(seen'[1]) = Len(seen[1]) + 2
              /\ seen'[1][Len(seen[1]) + 2].lsn = LogLen(heap, doc.root)
        /\ (\E i \in 1..Len(subs[doc.em]) : subs[doc.em][i].kind = "apply")
           => /\ last'.err = "OutOfSync"
              /\ Len(seen'[1]) <= Len(seen[1]) + 1
              /\ Replica_lsn(heap', reps[1]) = Replica_lsn(heap, reps[1])
              /\ ReplicaTree(heap', 1) = ReplicaTree(heap, 1)]_vars

\* The replica applied the event of a write to z (lsn 1); the next write
\* (lsn 2) made the handler write z (lsn 3), whose event came first and
\* failed on the replica.
C27_Witness ==
  /\ last.op = "set"
  /\ last.key = "a"
  /\ last.err = "OutOfSync"
  /\ Replica_lsn(heap, reps[1]) = Num(1)
  /\ Len(seen[1]) = 2
  /\ seen[1][2].lsn = 3
  /\ LogLen(heap, doc.root) = 4

\* C28: a replica at lsn r that is passed an event of its source later than
\* r + 1 (the event r + 1 was dropped, or a handler registered before the
\* replica's threw) fails with OutOfSync, and its lsn and tree change in no
\* step but the one that passes it the event r + 1.
C28_NoRecovery ==
  [][\A i \in 1..Len(reps) :
       /\ (/\ last'.op = "apply"
           /\ last'.root = reps[i].root
           /\ last'.n.n > Replica_lsn(heap, reps[i]).n + 1)
          => last'.err = "OutOfSync"
       /\ (/\ last'.op \in {"set", "delete"}
           /\ last'.root = doc.root
           /\ LogLen(heap', doc.root) > LogLen(heap, doc.root)
           /\ Linked(i)
           /\ \A j \in 1..Len(subs[doc.em]) : subs[doc.em][j].kind # "throw"
           /\ LogLen(heap, doc.root) > Replica_lsn(heap, reps[i]).n + 1)
          => last'.err = "OutOfSync"
       /\ ReplicaTree(heap', i) # ReplicaTree(heap, i)
          => /\ Replica_lsn(heap', reps[i]) = PlusOne(Replica_lsn(heap, reps[i]))
             /\ \/ /\ last'.op = "apply"
                   /\ last'.root = reps[i].root
                   /\ last'.n = Replica_lsn(heap', reps[i])
                \/ /\ last'.op \in {"set", "delete"}
                   /\ last'.root = doc.root
                   /\ Linked(i)
                   /\ Num(LogLen(heap, doc.root)) = Replica_lsn(heap', reps[i])]_vars

\* The replica missed event 1, which a handler registered before its own
\* threw on; with that handler taken off, event 2 reached the replica and
\* failed.
C28_Witness ==
  /\ last.op \in {"set", "delete"}
  /\ last.err = "OutOfSync"
  /\ Linked(1)
  /\ LogLen(heap, doc.root) = 3
  /\ Replica_lsn(heap, reps[1]) = Num(0)

\* C29: after a successful D.k = v, v being a mapping or a sequence, a write
\* the caller makes to v directly changes neither D's tree nor its log:
\* detach(D) still equals the replay of the log, and every value in the
\* document is assignable.
C29_SetCopiesValue ==
  [][(/\ last'.op = "mutateValue"
      /\ last.op = "set"
      /\ last.err = ""
      /\ IsRef(last.n)
      /\ last'.n.n \in ReachFrom(heap, {last.n.n}, {}))
     => /\ ManagedJson_detach(heap', doc).flat = ManagedJson_detach(heap, doc).flat
        /\ LogFlat(heap', doc.root) = LogFlat(heap, doc.root)
        /\ ManagedJson_restoreVersion(heap', doc, LogLen(heap', doc.root) - 1).flat
             = ManagedJson_detach(heap', doc).flat
        /\ isAssignable(heap', Ref(doc.root))]_vars

\* The calls that return a copy of the document.
TakeOps == {"detach", "detachPreserveVersionData", "getSnapshot", "restoreVersion"}

\* C30: create deep-copies its input, and detach, detachPreserveVersionData,
\* getSnapshot and restoreVersion return fresh deep copies: a write the
\* client makes to the value it passed to create, or to the value the call
\* before returned, changes neither D's tree nor its log nor versionCount.
C30_CopiesAreFresh ==
  [][(/\ last'.op = "mutateValue"
      /\ \/ last'.n.n \in ReachFrom(heap, {1}, {})
         \/ /\ last.op \in TakeOps
            /\ last'.n.n \in ReachFrom(heap, {last.n.n}, {}))
     => /\ Flat(heap', Ref(doc.root)) = Flat(heap, Ref(doc.root))
        /\ ManagedJson_detach(heap', doc) = ManagedJson_detach(heap, doc)
        /\ LogFlat(heap', doc.root) = LogFlat(heap, doc.root)
        /\ ManagedJson_versionCount(heap', doc) = ManagedJson_versionCount(heap, doc)]_vars

\* The client wrote to a copy that carries versioning data: to what
\* detachPreserveVersionData or getSnapshot returned.
C30_Witness ==
  /\ last.op = "mutateValue"
  /\ last.n.n > doc.root
  /\ last.n.n \notin ReachFrom(heap, {doc.root}, {})
  /\ HasProp(heap, last.n.n, VERSIONING_DATA_PROP)
  /\ HasProp(heap, last.n.n, "z")
\* The objects of the document's tree, its versioning data left out.
TreeObjects(h) ==
  ReachFrom(h, {h[doc.root].f[k].n : k \in {x \in DOMAIN h[doc.root].f :
                  x # VERSIONING_DATA_PROP /\ IsRef(h[doc.root].f[x])}}, {})

\* C31: a successful write through a nested view with path p appends to the
\* log of the root document one entry whose path is p followed by the
\* written key, whose op is SET or DELETE and whose value is a deep copy of
\* the written value (null for a DELETE): equal in structure, and an object
\* of its own, neither the caller's nor one of the tree.  The observer on the
\* root's emitter receives one event with that entry and its lsn, and
\* eventEmitter gives for every nested view the emitter it gives for the
\* root view.  The path p of a nested view is the path of the property
\* accesses that led to it: read from a view whose path leads from the root
\* to its target, the nested view's path leads from the root to its target.
C31_NestedWritesUseRootLog ==
  [][/\ \A v \in views : ManagedJson_eventEmitter(heap, v) = ManagedJson_eventEmitter(heap, doc)
     /\ \A u \in {doc} \cup views, k \in UserKeys :
          (nav(heap, Ref(doc.root), u.path, 1) = Ref(u.tgt) /\ Proxy_get(heap, u, Str(k)).isView)
          => nav(heap, Ref(doc.root), Proxy_get(heap, u, Str(k)).view.path, 1)
               = Ref(Proxy_get(heap, u, Str(k)).view.tgt)
     /\ (last'.op \in {"set", "delete"} /\ last'.err = "" /\ last'.path # << >>)
        => /\ LogLen(heap', doc.root) = LogLen(heap, doc.root) + 1
           /\ SubFlat(LogEntryAt(heap', LogLen(heap, doc.root)), <<"path">>)
                = Flat(<<ArrayOf(last'.path \o <<Str(last'.key)>>)>>, Ref(1))
           /\ SubFlat(LogEntryAt(heap', LogLen(heap, doc.root)), <<"op">>)
                = (IF last'.op = "set" THEN {<<<< >>, SET>>} ELSE {<<<< >>, DELETE>>})
           /\ SubFlat(LogEntryAt(heap', LogLen(heap, doc.root)), <<"value">>)
                = (IF last'.op = "set" THEN Flat(heap', last'.n) ELSE {<<<< >>, Null>>})
           /\ \E e \in {Prop(heap', Prop(heap', ManagedJson__getLog(heap', Ref(doc.root)).v,
                                         ToStr(LogLen(heap, doc.root))).v, "value").v} :
                IsRef(e) => /\ e # last'.n
                            /\ e.n \notin TreeObjects(heap')
                            /\ e.n > Len(heap)
           /\ Len(seen'[1]) = Len(seen[1]) + 1
           /\ seen'[1][Len(seen'[1])].lsn = LogLen(heap, doc.root)
           /\ Flat(heap', seen'[1][Len(seen'[1])].logEntry)
                = LogEntryAt(heap', LogLen(heap, doc.root))]_vars

\* An object was written under a nested view two levels below the root.
C31_Witness ==
  /\ last.op = "set"
  /\ last.err = ""
  /\ Len(last.path) = 2
  /\ IsRef(last.n)
  /\ LogLen(heap, doc.root) = 3

\* C32: every element of the path of every log entry is a string, and a
\* delete with a symbol as key is refused as a set with one is.
C32_PathsHoldStrings ==
  /\ \A x \in LogFlat(heap, doc.root) :
       (Len(x[1]) = 3 /\ x[1][2] = "path") => x[2].t = "string"
  /\ last.op \in {"setSymbol", "deleteSymbol"} => last.err = "InvalidKey"

\* C33: no log entry has __versioning__ in its path, and no log entry's
\* value holds a key __versioning__ (the versioning block), whatever was
\* attempted on the root key __versioning__ through the root view.
C33_LogFreeOfBlock ==
  \A x \in LogFlat(heap, doc.root) :
    /\ (Len(x[1]) = 3 /\ x[1][2] = "path") => x[2] # Str(VERSIONING_DATA_PROP)
    /\ (Len(x[1]) >= 3 /\ x[1][2] = "value")
         => \A i \in 3..Len(x[1]) : x[1][i] # VERSIONING_DATA_PROP

\* The classification as it is defined: null, a boolean, a number, a string,
\* a sequence of assignable values, or a generic mapping with string keys
\* only and assignable values.
RECURSIVE Assignable(_, _)
Assignable(h, v) ==
  \/ v.t \in {"null", "boolean", "number", "string"}
  \/ /\ IsRef(v)
     /\ h[v.n].kind \in {"obj", "arr"}
     /\ SymbolKey \notin DOMAIN h[v.n].f
     /\ \A k \in DOMAIN h[v.n].f : Assignable(h, h[v.n].f[k])

Manageable(h, v) == IsRef(v) /\ h[v.n].kind = "obj" /\ Assignable(h, v)

\* C34: isAssignable and isManageable return for every value what the
\* definition of assignable and manageable says.
C34_ClassifierMatchesDefinition ==
  /\ last.a = Assignable(heap, last.n)
  /\ last.b = Manageable(heap, last.n)

\* The elements of the path of the entry l, in order.
EntryPath(h, l) ==
  [i \in 1..h[h[l.n].f["path"].n].len |-> GetProp(h, h[l.n].f["path"].n, ToStr(i - 1))]

\* A well-formed entry: op is SET or DELETE, path is an ordered sequence of
\* strings and value is present.
WellFormed(h, l) ==
  /\ IsRef(l)
  /\ {"op", "path", "value"} \subseteq DOMAIN h[l.n].f
  /\ h[l.n].f["op"] \in {SET, DELETE}
  /\ IsArray(h, h[l.n].f["path"])
  /\ \A i \in 1..Len(EntryPath(h, l)) : EntryPath(h, l)[i].t = "string"

\* The key path kp ends in a key of a mapping of the structure flat.
ParentIsObject(flat, kp) ==
  /\ kp # << >>
  /\ \E e \in flat : e[1] = SubSeq(kp, 1, Len(kp) - 1) /\ e[2].t = "object" /\ e[2].s = "obj"

\* The structure `after` is `before` with the value at kp set (value being
\* its structure) or removed, everything else as it was.
Applied(before, after, kp, op, value) ==
  /\ after \ Below(after, kp) = before \ Below(before, kp)
  /\ IF op = SET THEN SubFlat(after, kp) = value ELSE ~Resolves(after, kp)

\* C35: LogEntry.apply(tree, entry) with a well-formed entry whose path
\* leads to a key of a mapping of the tree stores a deep copy of entry.value
\* at that key (SET) or removes the key (DELETE) and leaves every other key
\* as it was; with an entry that is not well-formed (op neither SET nor
\* DELETE, path no sequence or a sequence holding a non-string, value
\* absent) it fails with MalformedEntry and leaves the tree unchanged; on a
\* null or undefined tree it fails.
C35_ApplyContract ==
  last.op = "apply"
  => /\ ~WellFormed(heap, last.a)
          => last.err = "MalformedEntry" /\ Flat(heap, last.n) = last.b
     /\ IsNil(last.n) => last.err # ""
     /\ (WellFormed(heap, last.a) /\ ParentIsObject(last.b, KeyPath(EntryPath(heap, last.a))))
          => /\ last.err = ""
             /\ Applied(last.b, Flat(heap, last.n), KeyPath(EntryPath(heap, last.a)),
                        heap[last.a.n].f["op"], Flat(heap, heap[last.a.n].f["value"]))

\* C36: LogEntry.apply with a SET entry whose path is empty replaces the
\* contents of the tree with a copy of entry.value: afterwards the tree has
\* the structure of entry.value.
C36_EmptyPathReplacesTree ==
  (/\ last.op = "apply"
   /\ WellFormed(heap, last.a)
   /\ heap[last.a.n].f["op"] = SET
   /\ EntryPath(heap, last.a) = << >>
   /\ IsRef(last.n)
   /\ IsRef(heap[last.a.n].f["value"]))
  => /\ last.err = ""
     /\ Flat(heap, last.n) = Flat(heap, heap[last.a.n].f["value"])

\* The length of the longest prefix of the key path kp that resolves in the
\* structure flat.
Deepest(flat, kp) ==
  CHOOSE j \in 0..Len(kp) :
    /\ Resolves(flat, SubSeq(kp, 1, j))
    /\ \A i \in (j + 1)..Len(kp) : ~Resolves(flat, SubSeq(kp, 1, i))

\* The value at the longest resolving prefix of kp in flat.
DeepestValue(flat, kp) == SubFlat(flat, SubSeq(kp, 1, Deepest(flat, kp)))

\* C37: restoreVersion(v, k) for a nested view v whose path does not fully
\* resolve in version k returns the deepest value the path resolves to in
\* version k (version k being what restoreVersion gives for the root view).
C37_RestoreDeepestValue ==
  (/\ last.op = "restoreVersion"
   /\ last.err = ""
   /\ last.root = doc.root
   /\ last.path # << >>
   /\ ~Resolves(ManagedJson_restoreVersion(heap, doc, last.n.n).flat, KeyPath(last.path)))
  => last.a = DeepestValue(ManagedJson_restoreVersion(heap, doc, last.n.n).flat,
                           KeyPath(last.path))

\* C38: create refuses with InvalidVersioningData a value whose versioning
\* block has an empty log, or a log whose entry 0 is a DELETE or has a
\* non-empty path, even when the log replays to the tree.
C38_FirstEntryChecked ==
  last.op = "createTampered" => last.err = "InvalidVersioningData"

\* The root views of the documents: D and the document made after it.
Owners == {doc} \cup {reps[i] : i \in 1..Len(reps)}

\* C39: documents own their tree, log and emitter.  A write or delete
\* through a view of one document leaves the tree and the log of every other
\* document as they were and delivers no event to the observer on the other
\* document's emitter; and the first event of the document made after D has
\* the lsn that is the length its log had when it was made.
C39_IndependentOwners ==
  [][\A o \in Owners :
       /\ (last'.op \in {"set", "setSame", "delete"} /\ last'.root # o.root)
            => /\ Flat(heap', Ref(o.root)) = Flat(heap, Ref(o.root))
               /\ seen'[o.em] = seen[o.em]
       /\ (o # doc /\ seen[o.em] = << >> /\ seen'[o.em] # << >>)
            => seen'[o.em][1].lsn = LogLen(heap, o.root)]_vars

====
